---- MODULE Spec2Model ----
(***************************************************************************)
(* TruthGuard: the verification ledger (backend/blockchain_verifier.py),   *)
(* the request handlers that append to it (backend/script_1.py) and the    *)
(* score aggregation of the two analysis engines (backend/script_2.py,     *)
(* backend/ai_engine.py).                                                  *)
(*                                                                         *)
(* Conventions.  Scores are fixed-point, in units of 1/10000 (0.3 is 3000):*)
(* every product and average the engines compute on the input sets used    *)
(* here is exact in that unit.  SHA-256 is modelled as collision free: a   *)
(* digest is represented by the string that was hashed.  A string is a     *)
(* sequence; a text is abstracted to the set of pattern phrases it         *)
(* contains and whether it is longer than 100 characters.                  *)
(***************************************************************************)
EXTENDS Integers, Sequences, FiniteSets, TLC

VARIABLES
    verification_chain,   \* BlockchainVerifier.verification_chain
    content_hashes,       \* BlockchainVerifier.content_hashes
    result,               \* what the last ledger call returned (or raised)
    tampered,             \* the block index and field edited in storage, or NoTamper
    pc,                   \* per request: where its coroutine stands
    req,                  \* per request: its content, user and analysis result
    running,              \* the coroutine that holds the event loop, or Idle
    initial_chain,        \* the chain the concurrent requests started on
    verdict,              \* the last analysis: its inputs and what came out
    total_verifications,  \* TruthGuardAIEngine.total_verifications
    batch,                \* the batch request being served: its items and progress
    cache,                \* ai_engine.py TruthGuardAIEngine.cache
    stats,                \* ai_engine.py TruthGuardAIEngine.stats
    clock                 \* datetime.utcnow(), in half hours

vars ==
    <<verification_chain, content_hashes, result, tampered, pc, req, running,
      initial_chain, verdict, total_verifications, batch, cache, stats, clock>>

ledgerVars == <<verification_chain, content_hashes, result, tampered>>
taskVars == <<pc, req, running, initial_chain>>
aiVars == <<cache, stats, clock>>
engineVars == <<verdict, total_verifications, batch, aiVars>>

----------------------------------------------------------------------------
(* Bounds of the model *)

MaxChain == 3
NumTasks == 3

----------------------------------------------------------------------------
(* Values *)

\* Python's None where a number is expected, and where a string is expected.
NoneNum == -1
NoneStr == "<None>"

\* A value that is not a dict (analysis_result['confidence_scores'] = None).
NotADict == [not_a_dict |-> TRUE]
IsDict(v) == "not_a_dict" \notin DOMAIN v

\* The empty dict.
EmptyDict == [k \in {} |-> 0]

\* dict.get(key, default)
Get(d, k, default) == IF k \in DOMAIN d THEN d[k] ELSE default

Contents == {"c1", "c2"}
Users == {"u1", "u2"}

\* Analysis results handed to create_verification.
ResultLow ==
    [authenticity_score |-> 9000, misinformation_likelihood |-> 1000,
     risk_level |-> "low",
     confidence_scores |-> [overall_confidence |-> 8000],
     detection_details |-> [analysis_method |-> "multimodal_text_analysis"],
     fact_check_sources |-> <<"fc1">>]
ResultHigh ==
    [authenticity_score |-> 2000, misinformation_likelihood |-> 8000,
     risk_level |-> "high",
     confidence_scores |-> [overall_confidence |-> 3000],
     detection_details |-> [analysis_method |-> "fallback"],
     fact_check_sources |-> <<>>]
ResultEmpty == [request_id |-> "r"]
ResultMalformed ==
    [authenticity_score |-> 5000, misinformation_likelihood |-> 5000,
     risk_level |-> "medium",
     confidence_scores |-> NotADict]

\* The calls made on the ledger: (content, analysis_result, user_id).
Requests ==
    { [content |-> "c1", analysis_result |-> ResultLow, user_id |-> "u1"],
      [content |-> "c1", analysis_result |-> ResultHigh, user_id |-> "u2"],
      [content |-> "c2", analysis_result |-> ResultEmpty, user_id |-> "u1"],
      [content |-> "c1", analysis_result |-> ResultMalformed, user_id |-> "u1"] }

\* Wall-clock readings <<second, fraction>>: datetime.now() is not monotonic.
Times == { <<0, 0>>, <<0, 5>> }

TimeLeq(s, t) == s[1] < t[1] \/ (s[1] = t[1] /\ s[2] <= t[2])

----------------------------------------------------------------------------
(* Strings *)

\* A string is the sequence of its code points: "+" is 43, "." is 46, "Z" is
\* 90 and the digit d is 48 + d.
Digit(d) == 48 + d

\* A timestamp that ends in "Z" instead of the offset "+00:00".
isoformat_zulu(t) ==
    <<Digit(t[1])>> \o (IF t[2] = 0 THEN <<>> ELSE <<46, Digit(t[2])>>) \o <<90>>

\* datetime.now(timezone.utc).isoformat(): the fraction is printed only when
\* it is not zero, then the UTC offset "+00:00" (its first character stands
\* for it here).
isoformat(t) ==
    <<Digit(t[1])>> \o (IF t[2] = 0 THEN <<>> ELSE <<46, Digit(t[2])>>) \o <<43>>

\* Python's str < str: by code point, a proper prefix first.
RECURSIVE StrLess(_, _)
StrLess(a, b) ==
    IF b = <<>> THEN FALSE
    ELSE IF a = <<>> THEN TRUE
    ELSE IF Head(a) # Head(b) THEN Head(a) < Head(b)
    ELSE StrLess(Tail(a), Tail(b))

----------------------------------------------------------------------------
(* BlockchainVerifier: hashing *)

\* hashlib.sha256(content.encode('utf-8')).hexdigest()
create_content_hash(content) == <<"sha256", content>>

BlockKeys ==
    <<"analysis_details", "authenticity_score", "blockchain_hash", "content_hash",
      "misinformation_likelihood", "risk_level", "user_id",
      "verification_timestamp", "verifier">>

\* json.dumps(block, sort_keys=True, default=str): the keys the dict has, in
\* sorted order, each with its value.
json_dumps(block) ==
    LET present == SelectSeq(BlockKeys, LAMBDA k : k \in DOMAIN block)
    IN  [i \in 1..Len(present) |->
            IF present[i] = "analysis_details"
            THEN <<present[i],
                   <<block.analysis_details.ai_confidence,
                     block.analysis_details.detection_method,
                     block.analysis_details.fact_check_sources>>>>
            ELSE <<present[i], block[present[i]]>>]

\* A hash of the block's own fields only, with no previous hash.
create_blockchain_hash_unchained(verification_block, chain) ==
    json_dumps(verification_block)

\* The string hashed for a block when the chain is `chain`.
create_blockchain_hash(verification_block, chain) ==
    LET block_string == json_dumps(verification_block)
    IN  IF chain # <<>>
        THEN block_string \o <<"_">> \o chain[Len(chain)].blockchain_hash
        ELSE block_string

\* dict.copy() then pop('blockchain_hash')
PopHash(block) == [k \in DOMAIN block \ {"blockchain_hash"} |-> block[k]]

----------------------------------------------------------------------------
(* BlockchainVerifier: the operations, as functions of the ledger *)

\* The block create_verification builds before it is hashed (lines 37-50).
verification_block_of(content, analysis_result, user_id, now) ==
    [content_hash |-> create_content_hash(content),
     authenticity_score |-> Get(analysis_result, "authenticity_score", NoneNum),
     misinformation_likelihood |->
         Get(analysis_result, "misinformation_likelihood", NoneNum),
     risk_level |-> Get(analysis_result, "risk_level", NoneStr),
     verification_timestamp |-> isoformat(now),
     verifier |-> "TruthGuard-AI-v2.0",
     user_id |-> user_id,
     analysis_details |->
         [ai_confidence |->
              Get(Get(analysis_result, "confidence_scores", EmptyDict),
                  "overall_confidence", NoneNum),
          detection_method |->
              Get(Get(analysis_result, "detection_details", EmptyDict),
                  "analysis_method", NoneStr),
          fact_check_sources |->
              Len(Get(analysis_result, "fact_check_sources", <<>>))]]

\* Building the block raises when a nested value is not a dict (.get on None).
create_raises(analysis_result) ==
    \/ ~IsDict(analysis_result)
    \/ ~IsDict(Get(analysis_result, "confidence_scores", EmptyDict))
    \/ ~IsDict(Get(analysis_result, "detection_details", EmptyDict))

\* The block with its hash, as appended (lines 53-54).
hashed_block(body, chain) ==
    [k \in DOMAIN body \cup {"blockchain_hash"} |->
        IF k = "blockchain_hash" THEN create_blockchain_hash(body, chain)
        ELSE body[k]]

\* A create_verification that puts the new block first (insert(0, block)).
create_verification_prepend(chain, index, content, analysis_result, user_id, now) ==
    IF create_raises(analysis_result)
    THEN [raised |-> TRUE, chain |-> chain, content_hashes |-> index]
    ELSE LET body == verification_block_of(content, analysis_result, user_id, now)
             block == hashed_block(body, chain)
             key == body.content_hash
         IN  [raised |-> FALSE,
              chain |-> <<block>> \o chain,
              content_hashes |->
                  [h \in DOMAIN index \cup {key} |->
                      IF h = key THEN block ELSE index[h]],
              ret |-> block.blockchain_hash]

\* A create_verification that indexes a content once (setdefault): a later
\* block of the same content is appended and not indexed.
create_verification_keep_first(chain, index, content, analysis_result, user_id, now) ==
    IF create_raises(analysis_result)
    THEN [raised |-> TRUE, chain |-> chain, content_hashes |-> index]
    ELSE LET body == verification_block_of(content, analysis_result, user_id, now)
             block == hashed_block(body, chain)
             key == body.content_hash
         IN  [raised |-> FALSE,
              chain |-> Append(chain, block),
              content_hashes |->
                  [h \in DOMAIN index \cup {key} |->
                      IF h \in DOMAIN index THEN index[h] ELSE block],
              ret |-> block.blockchain_hash]

\* A create_verification that appends the block before it reads the nested
\* dicts of the analysis result: a raise leaves the block in the chain.
create_verification_append_first(chain, index, content, analysis_result, user_id, now) ==
    IF ~IsDict(analysis_result)
    THEN [raised |-> TRUE, chain |-> chain, content_hashes |-> index]
    ELSE IF create_raises(analysis_result)
    THEN [raised |-> TRUE,
          chain |-> Append(chain, [content_hash |-> create_content_hash(content),
                                   blockchain_hash |-> NoneStr]),
          content_hashes |-> index]
    ELSE LET body == verification_block_of(content, analysis_result, user_id, now)
             block == hashed_block(body, chain)
             key == body.content_hash
         IN  [raised |-> FALSE,
              chain |-> Append(chain, block),
              content_hashes |->
                  [h \in DOMAIN index \cup {key} |->
                      IF h = key THEN block ELSE index[h]],
              ret |-> block.blockchain_hash]

\* create_verification: the ledger after the call and what it returns.
create_verification(chain, index, content, analysis_result, user_id, now) ==
    IF create_raises(analysis_result)
    THEN [raised |-> TRUE, chain |-> chain, content_hashes |-> index]
    ELSE LET body == verification_block_of(content, analysis_result, user_id, now)
             block == hashed_block(body, chain)
             key == body.content_hash
         IN  [raised |-> FALSE,
              chain |-> Append(chain, block),
              content_hashes |->
                  [h \in DOMAIN index \cup {key} |->
                      IF h = key THEN block ELSE index[h]],
              ret |-> block.blockchain_hash]

\* A search that is left holding the last block looked at when none matches.
find_block_leak(chain, blockchain_hash) ==
    LET hits == {i \in 1..Len(chain) : chain[i].blockchain_hash = blockchain_hash}
    IN  IF hits = {} THEN Len(chain)
        ELSE CHOOSE i \in hits : \A j \in hits : i <= j

\* The first position of the chain whose block has that hash, or 0.
find_block(chain, blockchain_hash) ==
    LET hits == {i \in 1..Len(chain) : chain[i].blockchain_hash = blockchain_hash}
    IN  IF hits = {} THEN 0
        ELSE CHOOSE i \in hits : \A j \in hits : i <= j

verify_blockchain_integrity(chain, blockchain_hash) ==
    LET at == find_block(chain, blockchain_hash)
    IN  IF at = 0
        THEN [is_valid |-> FALSE, error |-> "Verification block not found"]
        ELSE LET verification_block == chain[at]
                 original_hash == verification_block.blockchain_hash
                 recreated_hash ==
                     create_blockchain_hash(PopHash(verification_block), chain)
             IN  [is_valid |-> (original_hash = recreated_hash),
                  original_hash |-> original_hash,
                  recreated_hash |-> recreated_hash,
                  verification_timestamp |->
                      verification_block.verification_timestamp,
                  authenticity_score |-> verification_block.authenticity_score,
                  content_hash |-> verification_block.content_hash]

\* Python's index of the block at position i of the sequence.
PyIndex(i) == i - 1
NoIndex == -1

\* _verify_chain_integrity: the boolean it returns and the index it logs.
\* A whole-chain check that passes over the second block as well as the first.
verify_chain_integrity_skip_two(chain) ==
    LET broken(i) ==
            chain[i].blockchain_hash #
                json_dumps(PopHash(chain[i])) \o <<"_">>
                    \o chain[i - 1].blockchain_hash
        bad == {i \in 3..Len(chain) : broken(i)}
    IN  IF bad = {} THEN [valid |-> TRUE, broken_at |-> NoIndex]
        ELSE [valid |-> FALSE,
              broken_at |-> PyIndex(CHOOSE i \in bad : \A j \in bad : i <= j)]

verify_chain_integrity(chain) ==
    LET broken(i) ==
            chain[i].blockchain_hash #
                json_dumps(PopHash(chain[i])) \o <<"_">>
                    \o chain[i - 1].blockchain_hash
        bad == {i \in 2..Len(chain) : broken(i)}
    IN  IF bad = {} THEN [valid |-> TRUE, broken_at |-> NoIndex]
        ELSE [valid |-> FALSE,
              broken_at |-> PyIndex(CHOOSE i \in bad : \A j \in bad : i <= j)]

\* No sort: the entries in chain order.
sort_unsorted(entries) == entries

\* list.sort(key=verification_timestamp): a stable sort by str order.
RECURSIVE sort_by_timestamp(_)
sort_by_timestamp(entries) ==
    IF entries = <<>> THEN <<>>
    ELSE LET n == Len(entries)
             last == entries[n]
             front == sort_by_timestamp(SubSeq(entries, 1, n - 1))
             \* last goes after every entry that is not greater than it
             keep == {i \in 1..Len(front) :
                         ~StrLess(last.verification_timestamp,
                                  front[i].verification_timestamp)}
             k == IF keep = {} THEN 0
                  ELSE CHOOSE i \in keep : \A j \in keep : j <= i
         IN  SubSeq(front, 1, k) \o <<last>> \o SubSeq(front, k + 1, Len(front))

provenance_entry(block) ==
    [verification_timestamp |-> block.verification_timestamp,
     blockchain_hash |-> block.blockchain_hash,
     authenticity_score |-> block.authenticity_score,
     risk_level |-> block.risk_level,
     verifier |-> block.verifier,
     user_id |-> block.user_id]

get_content_provenance(chain, content) ==
    LET content_hash == create_content_hash(content)
        matching == SelectSeq(chain, LAMBDA b : b.content_hash = content_hash)
        provenance_chain == [i \in 1..Len(matching) |-> provenance_entry(matching[i])]
    IN  sort_by_timestamp(provenance_chain)

RECURSIVE SumSeq(_)
SumSeq(q) == IF q = <<>> THEN 0 ELSE Head(q) + SumSeq(Tail(q))

\* round(total / n, 3) of a score in units of 1/10000: to the nearest
\* multiple of 10 units, a tie to the even one.
round3(total, n) ==
    LET q == total \div (10 * n)
        r == total % (10 * n)
    IN  IF 2 * r < 10 * n THEN 10 * q
        ELSE IF 2 * r > 10 * n THEN 10 * (q + 1)
        ELSE IF q % 2 = 0 THEN 10 * q ELSE 10 * (q + 1)

get_verification_stats(chain, index) ==
    LET total == Len(chain)
    IN  IF total = 0
        THEN [total_verifications |-> 0,
              unique_content_pieces |-> 0,
              average_authenticity_score |-> 0,
              risk_distribution |-> EmptyDict]
        ELSE LET all == [i \in 1..Len(chain) |-> chain[i].authenticity_score]
                 \* `if block['authenticity_score']`: neither None nor 0
                 authenticity_scores ==
                     SelectSeq(all, LAMBDA a : a # NoneNum /\ a # 0)
                 avg_authenticity ==
                     IF authenticity_scores # <<>>
                     THEN round3(SumSeq(authenticity_scores),
                                 Len(authenticity_scores))
                     ELSE 0
                 levels == {chain[i].risk_level : i \in 1..Len(chain)}
             IN  [total_verifications |-> total,
                  unique_content_pieces |-> Cardinality(DOMAIN index),
                  average_authenticity_score |-> avg_authenticity,
                  risk_distribution |->
                      [l \in levels |->
                          Cardinality({i \in 1..Len(chain) :
                                          chain[i].risk_level = l})],
                  chain_integrity |-> verify_chain_integrity(chain).valid]

----------------------------------------------------------------------------
(* The ledger as a state machine *)

NoTamper == [index |-> NoIndex, field |-> "none"]
Idle == 0
Procs == 1..NumTasks

NoResult == [op |-> "none"]
NoVerdict == [path |-> "none"]
NoBatch == [stage |-> "none"]

\* Hashes asked about: those of the chain, and hashes of blocks that could
\* have been appended (to the empty chain or to this one) but were not.
ProbeRequests == {r \in Requests : r.analysis_result \in {ResultLow, ResultEmpty}}
ProbeHashes(chain) ==
    {chain[i].blockchain_hash : i \in 1..Len(chain)}
        \cup {hashed_block(verification_block_of(r.content, r.analysis_result,
                                                 r.user_id, <<0, 5>>), c).blockchain_hash :
                 r \in ProbeRequests, c \in {<<>>, chain}}

LedgerInit ==
    /\ verification_chain = <<>>
    /\ content_hashes = EmptyDict
    /\ result = NoResult
    /\ tampered = NoTamper

\* ai_engine.py, __init__: self.stats
NoStats ==
    [total_analyses |-> 0, misinformation_detected |-> 0, processing_times |-> 0]

AiOff ==
    /\ cache = EmptyDict
    /\ stats = NoStats
    /\ clock = 0

EngineOff ==
    /\ verdict = NoVerdict
    /\ total_verifications = 0
    /\ batch = NoBatch
    /\ AiOff

TasksOff ==
    /\ pc = [p \in Procs |-> "off"]
    /\ req = [p \in Procs |-> NoResult]
    /\ running = Idle
    /\ initial_chain = <<>>

CreateVerification ==
    \E r \in Requests, now \in Times :
        LET out == create_verification(verification_chain, content_hashes,
                                       r.content, r.analysis_result, r.user_id, now)
        IN  /\ tampered = NoTamper
            /\ out.raised \/ Len(verification_chain) < MaxChain
            /\ verification_chain' = out.chain
            /\ content_hashes' = out.content_hashes
            /\ result' = IF out.raised
                         THEN [op |-> "create_verification", raised |-> TRUE,
                               request |-> r]
                         ELSE [op |-> "create_verification", raised |-> FALSE,
                               request |-> r, ret |-> out.ret]
            /\ UNCHANGED <<tampered, taskVars, engineVars>>

VerifyBlockchainIntegrity ==
    \E h \in ProbeHashes(verification_chain) :
        /\ result' = [op |-> "verify_blockchain_integrity", arg |-> h,
                      ret |-> verify_blockchain_integrity(verification_chain, h)]
        /\ UNCHANGED <<verification_chain, content_hashes, tampered,
                       taskVars, engineVars>>

GetContentProvenance ==
    \E c \in Contents :
        /\ result' = [op |-> "get_content_provenance", arg |-> c,
                      ret |-> get_content_provenance(verification_chain, c)]
        /\ UNCHANGED <<verification_chain, content_hashes, tampered,
                       taskVars, engineVars>>

GetVerificationStats ==
    /\ result' = [op |-> "get_verification_stats",
                  ret |-> get_verification_stats(verification_chain, content_hashes)]
    /\ UNCHANGED <<verification_chain, content_hashes, tampered,
                   taskVars, engineVars>>

LedgerNext ==
    \/ CreateVerification
    \/ VerifyBlockchainIntegrity
    \/ GetContentProvenance
    \/ GetVerificationStats

\* The ledger under its four operations, called one after another.
InitLedger == LedgerInit /\ TasksOff /\ EngineOff

SpecLedger == InitLedger /\ [][LedgerNext]_vars

----------------------------------------------------------------------------
(* The stored chain edited behind the ledger's back *)

\* The values a field of a stored block can be changed to.
Alternatives(field, v) ==
    CASE field = "content_hash" ->
            {create_content_hash(c) : c \in Contents} \ {v}
      [] field \in {"authenticity_score", "misinformation_likelihood"} ->
            {0, 5000} \ {v}
      [] field = "risk_level" -> {"low", "high"} \ {v}
      [] field = "verification_timestamp" -> {isoformat(t) : t \in Times} \ {v}
      [] field = "verifier" -> {"forged-verifier"}
      [] field = "user_id" -> Users \ {v}
      [] field = "analysis_details" ->
            {[v EXCEPT !.fact_check_sources = @ + 1]}
      [] field = "blockchain_hash" -> {create_content_hash("forged")}

\* One field of one stored block is changed; the entry of content_hashes that
\* is this same dict object shows the change too.
Tamper ==
    /\ tampered = NoTamper
    /\ \E i \in 1..Len(verification_chain) :
         \E field \in DOMAIN verification_chain[i] :
           \E new \in Alternatives(field, verification_chain[i][field]) :
             LET old == verification_chain[i]
                 edited == [old EXCEPT ![field] = new]
             IN  /\ verification_chain' = [verification_chain EXCEPT ![i] = edited]
                 /\ content_hashes' =
                        [h \in DOMAIN content_hashes |->
                            IF content_hashes[h] = old THEN edited
                            ELSE content_hashes[h]]
                 /\ tampered' = [index |-> PyIndex(i), field |-> field]
    /\ result' = NoResult
    /\ UNCHANGED <<taskVars, engineVars>>

TamperNext ==
    \/ CreateVerification
    \/ Tamper
    \/ GetVerificationStats

InitTamper == LedgerInit /\ TasksOff /\ EngineOff

\* Sequential appends, then one edit of the stored chain, then the checks.
SpecTamper == InitTamper /\ [][TamperNext]_vars

----------------------------------------------------------------------------
(* The stored chain reordered behind the ledger's back *)

\* Two blocks of the stored list change places; the dicts themselves, and so
\* the entries of content_hashes, are untouched.
Exchange ==
    /\ tampered = NoTamper
    /\ \E p \in 1..Len(verification_chain), q \in 1..Len(verification_chain) :
         /\ p < q
         /\ verification_chain' =
                [verification_chain EXCEPT ![p] = verification_chain[q],
                                           ![q] = verification_chain[p]]
         /\ tampered' = [index |-> PyIndex(p), field |-> "exchanged",
                         with |-> PyIndex(q)]
    /\ result' = NoResult
    /\ UNCHANGED <<content_hashes, taskVars, engineVars>>

ReorderNext ==
    \/ CreateVerification
    \/ Exchange
    \/ GetVerificationStats

InitReorder == LedgerInit /\ TasksOff /\ EngineOff

SpecReorder == InitReorder /\ [][ReorderNext]_vars

----------------------------------------------------------------------------
(* Requests served concurrently on one event loop *)

\* The analysis results of the concurrent requests.
ConcRequests == {r \in Requests : r.analysis_result \in {ResultLow, ResultHigh}}

\* Where a coroutine gives the event loop back: at an await on an external
\* service.  create_verification has no await between reading the last hash
\* and appending.
suspends_at_append(label) == label \in {"analysing", "hashed"}

suspends_at(label) == label = "analysing"

\* The chains the requests can start on: built by sequential appends.
SeedChain(n) ==
    IF n = 0 THEN <<>>
    ELSE create_verification(<<>>, EmptyDict, "c2", ResultLow, "u2", <<0, 0>>).chain

SeedIndex(n) ==
    IF n = 0 THEN EmptyDict
    ELSE create_verification(<<>>, EmptyDict, "c2", ResultLow, "u2",
                             <<0, 0>>).content_hashes

InitConc ==
    /\ \E n \in 0..1 :
          /\ verification_chain = SeedChain(n)
          /\ content_hashes = SeedIndex(n)
          /\ initial_chain = SeedChain(n)
    /\ result = NoResult
    /\ tampered = NoTamper
    /\ pc = [p \in Procs |-> "received"]
    /\ req \in [Procs -> ConcRequests]
    /\ running = Idle
    /\ EngineOff

\* A coroutine runs when the loop is free or it holds the loop.
MayRun(p) == running \in {Idle, p}

Yield(p, label) == IF suspends_at(label) THEN Idle ELSE p

\* verify_content awaits ai_engine.analyze_content: the external calls suspend it.
StartAnalysis(p) ==
    /\ pc[p] = "received" /\ MayRun(p)
    /\ pc' = [pc EXCEPT ![p] = "analysing"]
    /\ running' = Yield(p, "analysing")
    /\ UNCHANGED <<ledgerVars, req, initial_chain, engineVars>>

\* The analysis result arrives and the coroutine is resumed.
FinishAnalysis(p) ==
    /\ pc[p] = "analysing" /\ MayRun(p)
    /\ pc' = [pc EXCEPT ![p] = "analysed"]
    /\ running' = Yield(p, "analysed")
    /\ UNCHANGED <<ledgerVars, req, initial_chain, engineVars>>

\* create_verification up to the hash: the block is built and hashed with the
\* hash of the block that is last at this moment.
HashBlock(p) ==
    /\ pc[p] = "analysed" /\ MayRun(p)
    /\ \E now \in Times :
         LET r == req[p]
             body == verification_block_of(r.content, r.analysis_result,
                                           r.user_id, now)
         IN  req' = [req EXCEPT ![p] =
                        [content |-> r.content,
                         analysis_result |-> r.analysis_result,
                         user_id |-> r.user_id,
                         block |-> hashed_block(body, verification_chain)]]
    /\ pc' = [pc EXCEPT ![p] = "hashed"]
    /\ running' = Yield(p, "hashed")
    /\ UNCHANGED <<ledgerVars, initial_chain, engineVars>>

\* create_verification from the append on, and the handler's return.
AppendBlock(p) ==
    /\ pc[p] = "hashed" /\ MayRun(p)
    /\ verification_chain' = Append(verification_chain, req[p].block)
    /\ content_hashes' =
           [h \in DOMAIN content_hashes \cup {req[p].block.content_hash} |->
               IF h = req[p].block.content_hash THEN req[p].block
               ELSE content_hashes[h]]
    /\ result' = [op |-> "create_verification", raised |-> FALSE,
                  request |-> p, ret |-> req[p].block.blockchain_hash]
    /\ pc' = [pc EXCEPT ![p] = "returned"]
    /\ running' = Idle
    /\ UNCHANGED <<tampered, req, initial_chain, engineVars>>

ConcNext ==
    \E p \in Procs :
        \/ StartAnalysis(p)
        \/ FinishAnalysis(p)
        \/ HashBlock(p)
        \/ AppendBlock(p)

SpecConc == InitConc /\ [][ConcNext]_vars

----------------------------------------------------------------------------
(* The analysis engine of script_2.py: scores *)

Min(a, b) == IF a <= b THEN a ELSE b
Max(a, b) == IF a >= b THEN a ELSE b

\* `a in b` on the strings of the model.
SubstringFacts ==
    { <<"conspiracy", "voter fraud conspiracy">>, <<"nic.in", "clinic.in">> }
Within(a, b) == a = b \/ <<a, b>> \in SubstringFacts

\* `pattern in text.lower()`: a text is the set of phrases written in it.
InText(pattern, text) == \E q \in text.phrases : Within(pattern, q)

\* self.misinformation_patterns, in the order of the dict.
misinformation_patterns ==
    << <<"election_manipulation", "voting machines hacked">>,
       <<"election_manipulation", "fake polling results">>,
       <<"election_manipulation", "voter fraud conspiracy">>,
       <<"health_misinformation", "vaccine microchips">>,
       <<"health_misinformation", "covid hoax">>,
       <<"health_misinformation", "miracle cure">>,
       <<"deepfake_indicators", "unnatural facial movements">>,
       <<"deepfake_indicators", "inconsistent lighting">>,
       <<"deepfake_indicators", "audio sync issues">> >>

\* _check_misinformation_patterns: one "category: pattern" per pattern found.
check_misinformation_patterns(text) ==
    SelectSeq(misinformation_patterns, LAMBDA m : InText(m[2], text))

\* self.trusted_sources, in the order of the dict.
trusted_sources ==
    << <<"news", {"pti.org.in", "thehindu.com", "indianexpress.com",
                  "timesofindia.com", "ndtv.com", "republicworld.com"}>>,
       <<"government", {"pib.gov.in", "mygov.in", "nic.in", "india.gov.in"}>>,
       <<"fact_check", {"boomlive.in", "altnews.in", "factchecker.in",
                        "vishvasnews.com", "newsmobile.in"}>> >>

\* A scoring that knows no list: every domain is an unknown one.
evaluate_source_credibility_unlisted(domain) == 5000

\* _evaluate_source_credibility, on the netloc of the URL.
evaluate_source_credibility(domain) ==
    LET hit == {i \in 1..Len(trusted_sources) :
                   \E t \in trusted_sources[i][2] : Within(t, domain)}
    IN  IF hit = {} THEN 5000
        ELSE LET category == trusted_sources[CHOOSE i \in hit : \A j \in hit : i <= j][1]
             IN  CASE category = "government" -> 9500
                   [] category = "fact_check" -> 9000
                   [] category = "news" -> 8000

\* _calculate_risk_level
calculate_risk_level(misinformation_likelihood) ==
    IF misinformation_likelihood >= 8000 THEN "critical"
    ELSE IF misinformation_likelihood >= 6000 THEN "high"
    ELSE IF misinformation_likelihood >= 4000 THEN "medium"
    ELSE "low"

\* _calculate_fact_check_confidence is called but defined nowhere in the
\* repository: the count of corroborating fact checks, as the design states.
calculate_fact_check_confidence(fact_check_results) == Len(fact_check_results)

\* A fallback verdict that does not say why it is one.
fallback_analysis_silent ==
    [authenticity_score |-> 5000,
     misinformation_likelihood |-> 5000,
     detection_details |-> [analysis_method |-> "fallback"],
     fact_check_sources |-> <<>>,
     confidence_scores |-> [overall_confidence |-> 3000]]

\* The verdict every analyser returns from its `except Exception` branch.
fallback_analysis ==
    [authenticity_score |-> 5000,
     misinformation_likelihood |-> 5000,
     detection_details |-> [error |-> "exception", analysis_method |-> "fallback"],
     fact_check_sources |-> <<>>,
     confidence_scores |-> [overall_confidence |-> 3000]]

\* `if metadata and "source_url" in metadata`
has_source_url(metadata) == "source_url" \in DOMAIN metadata

\* FactCheckService.check_claims is imported from app.services.fact_check_apis,
\* which the repository does not hold: as the design states it, a lookup that
\* fails gives the empty list, not an error.  lookup.ok: the index answered.
check_claims(lookup) == IF lookup.ok THEN lookup.results ELSE <<>>

\* _analyze_text_content, lines 234-268: the verdict from the model's answer,
\* the fact checks and the patterns of the text.
text_verdict(text, metadata, gemini_result, fact_check_results) ==
    LET pattern_matches == check_misinformation_patterns(text)
        misinformation_likelihood ==
            IF pattern_matches # <<>>
            THEN Min(10000, gemini_result.misinformation_likelihood + 3000)
            ELSE gemini_result.misinformation_likelihood
        adjusted ==
            IF pattern_matches # <<>>
            THEN Max(0, gemini_result.authenticity_score - 3000)
            ELSE gemini_result.authenticity_score
        source_score ==
            IF has_source_url(metadata)
            THEN evaluate_source_credibility(metadata.source_url)
            ELSE 10000
        authenticity_score ==
            IF has_source_url(metadata)
            THEN (adjusted + source_score) \div 2
            ELSE adjusted
    IN  [authenticity_score |-> authenticity_score,
         misinformation_likelihood |-> misinformation_likelihood,
         detection_details |->
             [gemini_analysis |-> gemini_result,
              fact_check_results |-> fact_check_results,
              pattern_matches |-> pattern_matches,
              source_credibility |-> source_score,
              analysis_method |-> "multimodal_text_analysis"],
         fact_check_sources |-> fact_check_results,
         confidence_scores |->
             [ai_confidence |-> Get(gemini_result, "confidence_level", 8000),
              fact_check_confidence |->
                  calculate_fact_check_confidence(fact_check_results),
              pattern_confidence |-> Len(pattern_matches) * 2000,
              overall_confidence |->
                  Get(gemini_result, "confidence_level", 8000)]]

\* An _analyze_text_content whose fact-check lookup raises when the index
\* fails, into the handler of the whole analysis.
analyze_text_content_abort(text, metadata, gemini, fact_check) ==
    IF \/ ~gemini.ok
       \/ ~fact_check.ok
       \/ "authenticity_score" \notin DOMAIN gemini.result
       \/ "misinformation_likelihood" \notin DOMAIN gemini.result
    THEN fallback_analysis
    ELSE text_verdict(text, metadata, gemini.result, fact_check.results)

\* _analyze_text_content.  gemini is what the model call did ([ok |-> FALSE]
\* when it raised), fact_check what the fact-check index did.
analyze_text_content(text, metadata, gemini, fact_check) ==
    IF \/ ~gemini.ok
       \/ "authenticity_score" \notin DOMAIN gemini.result
       \/ "misinformation_likelihood" \notin DOMAIN gemini.result
    THEN fallback_analysis
    ELSE text_verdict(text, metadata, gemini.result, check_claims(fact_check))

\* _analyze_image_content.  decoded: the image was fetched or decoded and the
\* Vision calls returned; indicators: how many of the four manipulation
\* indicators are set.
analyze_image_content(decoded, indicators, gemini) ==
    IF ~decoded \/ ~gemini.ok THEN fallback_analysis
    ELSE LET gemini_result == gemini.result
             manipulation_score == (indicators * 10000) \div 4
         IN  [authenticity_score |->
                  Max(0, Get(gemini_result, "authenticity_score", 7000)
                             - manipulation_score),
              misinformation_likelihood |->
                  Min(10000, Get(gemini_result, "misinformation_likelihood", 3000)
                                 + manipulation_score),
              detection_details |->
                  [gemini_analysis |-> gemini_result,
                   manipulation_score |-> manipulation_score,
                   analysis_method |-> "multimodal_image_analysis"],
              fact_check_sources |-> <<>>,
              confidence_scores |->
                  [vision_confidence |-> 8500,
                   gemini_confidence |-> Get(gemini_result, "confidence_level", 8000),
                   manipulation_confidence |-> 10000 - manipulation_score,
                   overall_confidence |-> 8000]]

\* A video analysis with the two weights the other way round.
analyze_video_content_swapped(annotated, metadata, gemini, speech) ==
    IF ~annotated \/ ~gemini.ok THEN fallback_analysis
    ELSE LET gemini_result == gemini.result
             speech_analysis ==
                 IF speech.spoken
                 THEN analyze_text_content(speech.text, metadata,
                                           speech.gemini, speech.fact_check)
                 ELSE EmptyDict
             video_authenticity == Get(gemini_result, "authenticity_score", 7000)
             speech_authenticity == Get(speech_analysis, "authenticity_score", 7000)
             authenticity_score ==
                 (video_authenticity * 3000 + speech_authenticity * 7000) \div 10000
         IN  [authenticity_score |-> authenticity_score,
              misinformation_likelihood |-> 10000 - authenticity_score,
              detection_details |->
                  [video_analysis |-> gemini_result,
                   speech_analysis |-> speech_analysis,
                   analysis_method |-> "multimodal_video_analysis"],
              fact_check_sources |-> Get(speech_analysis, "fact_check_sources", <<>>),
              confidence_scores |->
                  [video_confidence |-> Get(gemini_result, "confidence_level", 7000),
                   speech_confidence |->
                       Get(Get(speech_analysis, "confidence_scores", EmptyDict),
                           "overall_confidence", 7000),
                   overall_confidence |-> 7500]]

\* _analyze_video_content.  annotated: upload and annotate_video succeeded;
\* speech: [spoken |-> FALSE] for no transcription, else the transcribed text
\* and what the two external calls of its text analysis did.
analyze_video_content(annotated, metadata, gemini, speech) ==
    IF ~annotated \/ ~gemini.ok THEN fallback_analysis
    ELSE LET gemini_result == gemini.result
             speech_analysis ==
                 IF speech.spoken
                 THEN analyze_text_content(speech.text, metadata,
                                           speech.gemini, speech.fact_check)
                 ELSE EmptyDict
             video_authenticity == Get(gemini_result, "authenticity_score", 7000)
             speech_authenticity == Get(speech_analysis, "authenticity_score", 7000)
             authenticity_score ==
                 (video_authenticity * 7000 + speech_authenticity * 3000) \div 10000
         IN  [authenticity_score |-> authenticity_score,
              misinformation_likelihood |-> 10000 - authenticity_score,
              detection_details |->
                  [video_analysis |-> gemini_result,
                   speech_analysis |-> speech_analysis,
                   analysis_method |-> "multimodal_video_analysis"],
              fact_check_sources |-> Get(speech_analysis, "fact_check_sources", <<>>),
              confidence_scores |->
                  [video_confidence |-> Get(gemini_result, "confidence_level", 7000),
                   speech_confidence |->
                       Get(Get(speech_analysis, "confidence_scores", EmptyDict),
                           "overall_confidence", 7000),
                   overall_confidence |-> 7500]]

\* _analyze_audio_content.  recognized: upload and recognition succeeded; the
\* transcription is always analysed as text, then the voice by Gemini.
analyze_audio_content(recognized, metadata, gemini, speech) ==
    IF ~recognized \/ ~gemini.ok THEN fallback_analysis
    ELSE LET text_analysis ==
                 analyze_text_content(speech.text, metadata,
                                      speech.gemini, speech.fact_check)
             gemini_result == gemini.result
             text_score == text_analysis.authenticity_score
             voice_score == Get(gemini_result, "authenticity_score", 7000)
             authenticity_score ==
                 (text_score * 6000 + voice_score * 4000) \div 10000
         IN  [authenticity_score |-> authenticity_score,
              misinformation_likelihood |-> 10000 - authenticity_score,
              detection_details |->
                  [text_analysis |-> text_analysis,
                   voice_analysis |-> gemini_result,
                   analysis_method |-> "multimodal_audio_analysis"],
              fact_check_sources |-> text_analysis.fact_check_sources,
              confidence_scores |->
                  [transcription_confidence |-> 8500,
                   text_confidence |->
                       Get(text_analysis.confidence_scores, "overall_confidence", 7000),
                   voice_confidence |-> Get(gemini_result, "confidence_level", 7000),
                   overall_confidence |-> 7500]]

\* The content types analyze_content routes, and the analyser of each.
ContentTypes ==
    {"text", "image", "image_url", "video", "video_url", "audio", "audio_url"}
analyser_of(content_type) ==
    CASE content_type = "text" -> "text"
      [] content_type \in {"image", "image_url"} -> "image"
      [] content_type \in {"video", "video_url"} -> "video"
      [] content_type \in {"audio", "audio_url"} -> "audio"

\* The AnalysisResult dataclass: its fields are read as attributes, and it is
\* no dict (it has no .get).
AnalysisResult(fields) ==
    [k \in DOMAIN fields \cup {"not_a_dict"} |->
        IF k = "not_a_dict" THEN TRUE ELSE fields[k]]

\* A content with an unpaired surrogate ("\ud800" in the JSON body):
\* content.encode() in _generate_content_id raises UnicodeEncodeError.
UnencodableInput == [encodable |-> FALSE]

\* analyze_content: the content id, the route to the analyser, then the
\* AnalysisResult; it raises what _generate_content_id or the route raise.
analyze_content(content_type, input) ==
    IF input = UnencodableInput \/ content_type \notin ContentTypes
    THEN [raised |-> TRUE]
    ELSE LET analysed ==
                 CASE analyser_of(content_type) = "text" ->
                        analyze_text_content(input.text, input.metadata,
                                             input.gemini, input.fact_check)
                   [] analyser_of(content_type) = "image" ->
                        analyze_image_content(input.decoded, input.indicators,
                                              input.gemini)
                   [] analyser_of(content_type) = "video" ->
                        analyze_video_content(input.decoded, input.metadata,
                                              input.gemini, input.speech)
                   [] analyser_of(content_type) = "audio" ->
                        analyze_audio_content(input.decoded, input.metadata,
                                              input.gemini, input.speech)
         IN  AnalysisResult([raised |-> FALSE,
              authenticity_score |-> analysed.authenticity_score,
              misinformation_likelihood |-> analysed.misinformation_likelihood,
              risk_level |-> calculate_risk_level(analysed.misinformation_likelihood),
              detection_details |-> analysed.detection_details,
              fact_check_sources |-> analysed.fact_check_sources,
              confidence_scores |-> analysed.confidence_scores])

----------------------------------------------------------------------------
(* The text analyser of ai_engine.py *)

sensational_words ==
    {"shocking", "unbelievable", "secret", "hidden truth",
     "they don't want you to know"}
conspiracy_words == {"conspiracy", "cover-up", "mainstream media", "deep state"}

\* ai_engine.py, _check_misinformation_patterns: one entry per category.
ai_check_misinformation_patterns(text) ==
    (IF \E w \in sensational_words : InText(w, text)
     THEN <<"sensational_language">> ELSE <<>>)
    \o (IF \E w \in conspiracy_words : InText(w, text)
        THEN <<"conspiracy_indicators">> ELSE <<>>)
    \o (IF ~InText("source", text) /\ ~InText("study", text) /\ text.long
        THEN <<"lack_of_sources">> ELSE <<>>)

\* analyze_text up to its call of _calculate_final_scores: the initial result
\* updated with what _analyze_misinformation returns.
ai_analyze_misinformation(text, text_classifier) ==
    [is_misinformation |-> FALSE,
     confidence_score |-> IF text_classifier THEN 1000 ELSE 0,
     risk_level |-> "low",
     detected_patterns |-> ai_check_misinformation_patterns(text),
     fact_checks |-> <<>>]

\* ai_engine.py, _calculate_final_scores
ai_calculate_final_scores(r) ==
    LET pattern_count == Len(r.detected_patterns)
        final_score == Min(10000, r.confidence_score + pattern_count * 2000)
    IN  IF final_score < 3000
        THEN [r EXCEPT !.confidence_score = final_score, !.risk_level = "low"]
        ELSE IF final_score < 7000
        THEN [r EXCEPT !.confidence_score = final_score, !.risk_level = "medium"]
        ELSE [r EXCEPT !.confidence_score = final_score, !.risk_level = "high",
                       !.is_misinformation = TRUE]

\* dict.update
Update(d, e) ==
    [k \in DOMAIN d \cup DOMAIN e |-> IF k \in DOMAIN e THEN e[k] ELSE d[k]]

\* ai_engine.py, analyze_text as a whole.
ai_analyze_text(text, text_classifier) ==
    ai_calculate_final_scores(ai_analyze_misinformation(text, text_classifier))

\* ai_engine.py, cache_ttl = timedelta(hours=1), in half hours.
cache_ttl == 2

\* ai_engine.py, _update_stats.  processing_times is carried by its length.
ai_update_stats(st, r) ==
    [total_analyses |-> st.total_analyses + 1,
     processing_times |-> IF st.processing_times + 1 > 1000 THEN 500
                          ELSE st.processing_times + 1,
     misinformation_detected |->
         IF Get(r, "is_misinformation", FALSE) \/ Get(r, "is_manipulated", FALSE)
         THEN st.misinformation_detected + 1
         ELSE st.misinformation_detected]

\* self.cache[cache_key] = {"result": result, "timestamp": datetime.utcnow()}
ai_cache_store(c, text, r, now) ==
    [k \in DOMAIN c \cup {text} |->
        IF k = text THEN [result |-> r, timestamp |-> now] ELSE c[k]]

\* A call of analyze_text that returns whatever the cache holds for the
\* text, however old.
ai_analyze_text_call_no_ttl(c, st, text, text_classifier, now) ==
    IF text = UnencodableInput
    THEN [raised |-> TRUE, cache |-> c, stats |-> st]
    ELSE IF text \in DOMAIN c
    THEN [raised |-> FALSE, result |-> c[text].result, cache |-> c, stats |-> st]
    ELSE LET r == Update(ai_analyze_text(text, text_classifier),
                         [request_id |-> <<now, text>>])
         IN  [raised |-> FALSE, result |-> r,
              cache |-> ai_cache_store(c, text, r, now),
              stats |-> ai_update_stats(st, r)]

\* ai_engine.py, one call of analyze_text on an engine whose cache is c and
\* whose statistics are st, at the time now: what it returns or that it
\* raised, and the cache and the statistics it leaves.  _generate_request_id
\* raises on a text that cannot be encoded, before the try block is entered.
ai_analyze_text_call(c, st, text, text_classifier, now) ==
    IF text = UnencodableInput
    THEN [raised |-> TRUE, cache |-> c, stats |-> st]
    ELSE IF text \in DOMAIN c /\ now - c[text].timestamp < cache_ttl
    THEN [raised |-> FALSE, result |-> c[text].result, cache |-> c, stats |-> st]
    ELSE LET r == Update(ai_analyze_text(text, text_classifier),
                         [request_id |-> <<now, text>>])
         IN  [raised |-> FALSE, result |-> r,
              cache |-> ai_cache_store(c, text, r, now),
              stats |-> ai_update_stats(st, r)]

\* ai_engine.py, _analyze_source_credibility
ai_analyze_source_credibility(credible) ==
    [is_credible_source |-> credible,
     credibility_score |-> IF credible THEN 8000 ELSE 3000]

\* ai_engine.py, _calculate_url_scores
ai_calculate_url_scores(r) ==
    LET content_score == Get(r.content_analysis, "confidence_score", 0)
        source_score == Get(r.source_credibility, "credibility_score", 5000)
        final_score ==
            (content_score * 7000 + (10000 - source_score) * 3000) \div 10000
    IN  Update(r,
          [confidence_score |-> final_score,
           is_misinformation |-> Get(r.content_analysis, "is_misinformation", FALSE),
           risk_level |-> IF final_score < 3000 THEN "low"
                          ELSE IF final_score < 7000 THEN "medium"
                          ELSE "high"])

\* What _fetch_url_content returns when the fetch failed.
NoPage == [fetched |-> FALSE]

\* The object analyze_url and analyze_image return from `except Exception`.
error_object == [error |-> "exception"]

\* ai_engine.py, analyze_url.  page is NoPage when the fetch failed, else the
\* text of the page; a page text that cannot be encoded makes
\* _generate_request_id raise inside analyze_text, which analyze_url catches.
ai_analyze_url(page, credible, deep_scan, text_classifier) ==
    LET initial == [is_misinformation |-> FALSE,
                    confidence_score |-> 0,
                    risk_level |-> "low",
                    content_analysis |-> EmptyDict,
                    source_credibility |-> EmptyDict,
                    fact_checks |-> <<>>]
        analysed ==
            Update(initial,
              [content_analysis |-> ai_analyze_text(page, text_classifier),
               source_credibility |-> ai_analyze_source_credibility(credible)])
        scanned == IF deep_scan
                   THEN Update(analysed, [deep_scan_completed |-> TRUE])
                   ELSE analysed
    IN  IF page = NoPage THEN ai_calculate_url_scores(initial)
        ELSE IF page = UnencodableInput THEN error_object
        ELSE ai_calculate_url_scores(scanned)

\* An image analysis that fails as analyze_text's handler would have it:
\* the initial result with the error added to it.
ai_analyze_image_partial(openable) ==
    IF openable
    THEN [is_manipulated |-> FALSE,
          confidence_score |-> 1000,
          manipulation_types |-> <<>>,
          authenticity_score |-> 9000]
    ELSE [is_manipulated |-> FALSE,
          confidence_score |-> 0,
          manipulation_types |-> <<>>,
          authenticity_score |-> 0,
          error |-> "exception"]

\* ai_engine.py, analyze_image: _process_image raises when the bytes are no
\* image; _detect_deepfake returns None.
ai_analyze_image(openable) ==
    IF openable
    THEN [is_manipulated |-> FALSE,
          confidence_score |-> 1000,
          manipulation_types |-> <<>>,
          authenticity_score |-> 9000]
    ELSE error_object

----------------------------------------------------------------------------
(* One analysis, from its inputs to its verdict *)

\* What Gemini may answer: any number, in the range asked for or not.
GeminiAuthenticity == {-2000, 0, 5000, 6500, 7000, 10000, 15000}
GeminiLikelihood == {-2000, 2900, 3000, 5000, 6900, 7000, 8000, 12000}
GeminiFailed == [ok |-> FALSE, result |-> EmptyDict]
GeminiOutcomes ==
    {GeminiFailed, [ok |-> TRUE, result |-> EmptyDict]}
    \cup {[ok |-> TRUE,
           result |-> [authenticity_score |-> a, misinformation_likelihood |-> m]] :
             a \in GeminiAuthenticity, m \in GeminiLikelihood}
SpeechGemini ==
    {GeminiFailed}
    \cup {[ok |-> TRUE,
           result |-> [authenticity_score |-> a, misinformation_likelihood |-> 3000]] :
             a \in {0, 10000, 15000}}

FactCheckOutcomes ==
    {[ok |-> FALSE, results |-> <<>>], [ok |-> TRUE, results |-> <<>>],
     [ok |-> TRUE, results |-> <<"boomlive.in/fact-check/1">>]}

\* Texts, as the phrases of interest they contain and whether they are long.
EnginePhrases ==
    {"voting machines hacked", "fake polling results", "voter fraud conspiracy",
     "miracle cure"}
EngineTexts == {[phrases |-> ps, long |-> FALSE] : ps \in SUBSET EnginePhrases}
SpokenTexts ==
    {[phrases |-> ps, long |-> FALSE] : ps \in {{}, {"miracle cure"}}}
AiPhrases == {"shocking", "unbelievable", "voter fraud conspiracy", "source"}
AiTexts == {[phrases |-> ps, long |-> l] : ps \in SUBSET AiPhrases, l \in BOOLEAN}

Domains == {"pib.gov.in", "altnews.in", "thehindu.com", "example.com", "clinic.in"}
Metadatas == {EmptyDict} \cup {[source_url |-> d] : d \in Domains}

SpeechOutcomes ==
    {[spoken |-> FALSE, text |-> [phrases |-> {}, long |-> FALSE],
      gemini |-> GeminiFailed, fact_check |-> [ok |-> FALSE, results |-> <<>>]]}
    \cup {[spoken |-> TRUE, text |-> t, gemini |-> g,
           fact_check |-> [ok |-> TRUE, results |-> <<>>]] :
             t \in SpokenTexts, g \in SpeechGemini}

TextInputs ==
    {[text |-> t, metadata |-> m, gemini |-> g, fact_check |-> f] :
        t \in EngineTexts, m \in Metadatas, g \in GeminiOutcomes,
        f \in FactCheckOutcomes}
ImageInputs ==
    {[decoded |-> d, indicators |-> k, gemini |-> g] :
        d \in BOOLEAN, k \in 0..4, g \in GeminiOutcomes}
MediaInputs ==
    {[decoded |-> d, metadata |-> m, gemini |-> g, speech |-> s] :
        d \in BOOLEAN, m \in {EmptyDict, [source_url |-> "pib.gov.in"]},
        g \in GeminiOutcomes, s \in SpeechOutcomes}

InputsOf(content_type) ==
    IF content_type \notin ContentTypes THEN {[decoded |-> FALSE]}
    ELSE {UnencodableInput} \cup
         CASE analyser_of(content_type) = "text" -> TextInputs
           [] analyser_of(content_type) = "image" -> ImageInputs
           [] analyser_of(content_type) \in {"video", "audio"} -> MediaInputs

\* What _fetch_url_content gives: nothing, a page, or a page whose text
\* holds an unpaired surrogate.
Pages ==
    {NoPage, UnencodableInput}
    \cup {t \in AiTexts :
            t.phrases \subseteq {"shocking", "source", "voter fraud conspiracy"}}

InitEngine ==
    /\ LedgerInit
    /\ TasksOff
    /\ total_verifications = 0
    /\ AiOff
    /\ batch = NoBatch
    /\ \/ \E ct \in ContentTypes \cup {"pdf"} : \E i \in InputsOf(ct) :
             verdict = [path |-> "analyze_content", stage |-> "received",
                        content_type |-> ct, input |-> i]
       \/ \E t \in AiTexts, c \in BOOLEAN :
             verdict = [path |-> "analyze_text", stage |-> "received",
                        text |-> t, text_classifier |-> c]
       \/ \E pg \in Pages, cr \in BOOLEAN, ds \in BOOLEAN, c \in BOOLEAN :
             verdict = [path |-> "analyze_url", stage |-> "received",
                        page |-> pg, credible |-> cr, deep_scan |-> ds,
                        text_classifier |-> c]
       \/ \E o \in BOOLEAN :
             verdict = [path |-> "analyze_image", stage |-> "received",
                        openable |-> o]

\* TruthGuardAIEngine.analyze_content: the verdict, and the count of
\* verifications unless the content type was refused.
AnalyzeContent ==
    /\ verdict.path = "analyze_content"
    /\ verdict.stage = "received"
    /\ LET out == analyze_content(verdict.content_type, verdict.input)
       IN  /\ verdict' = [path |-> "analyze_content", stage |-> "returned",
                          content_type |-> verdict.content_type,
                          input |-> verdict.input,
                          result |-> out]
           /\ total_verifications' =
                  IF out.raised THEN total_verifications
                  ELSE total_verifications + 1
    /\ UNCHANGED <<ledgerVars, taskVars, aiVars, batch>>

\* ai_engine.py, analyze_text, lines 178-201
AnalyzeMisinformation ==
    /\ verdict.path = "analyze_text"
    /\ verdict.stage = "received"
    /\ verdict' = [path |-> "analyze_text", stage |-> "analysed",
                   text |-> verdict.text,
                   text_classifier |-> verdict.text_classifier,
                   result |-> ai_analyze_misinformation(verdict.text,
                                                        verdict.text_classifier)]
    /\ UNCHANGED <<ledgerVars, taskVars, aiVars, total_verifications, batch>>

\* ai_engine.py, analyze_text, lines 204-219
CalculateFinalScores ==
    /\ verdict.path = "analyze_text"
    /\ verdict.stage = "analysed"
    /\ verdict' = [verdict EXCEPT !.stage = "returned",
                                  !.result = ai_calculate_final_scores(@)]
    /\ stats' = ai_update_stats(stats, verdict'.result)
    /\ cache' = ai_cache_store(cache, verdict.text, verdict'.result, clock)
    /\ UNCHANGED <<ledgerVars, taskVars, clock, total_verifications, batch>>

\* ai_engine.py, analyze_url
AnalyzeUrl ==
    /\ verdict.path = "analyze_url"
    /\ verdict.stage = "received"
    /\ verdict' = [path |-> "analyze_url", stage |-> "returned",
                   page |-> verdict.page,
                   result |-> ai_analyze_url(verdict.page, verdict.credible,
                                             verdict.deep_scan,
                                             verdict.text_classifier)]
    /\ LET inner == IF verdict.page = NoPage
                    THEN [cache |-> cache, stats |-> stats]
                    ELSE ai_analyze_text_call(cache, stats, verdict.page,
                                              verdict.text_classifier, clock)
       IN  /\ cache' = inner.cache
           /\ stats' = IF "error" \in DOMAIN verdict'.result THEN inner.stats
                       ELSE ai_update_stats(inner.stats, verdict'.result)
    /\ UNCHANGED <<ledgerVars, taskVars, clock, total_verifications, batch>>

\* ai_engine.py, analyze_image
AnalyzeImage ==
    /\ verdict.path = "analyze_image"
    /\ verdict.stage = "received"
    /\ verdict' = [path |-> "analyze_image", stage |-> "returned",
                   openable |-> verdict.openable,
                   result |-> ai_analyze_image(verdict.openable)]
    /\ stats' = IF "error" \in DOMAIN verdict'.result THEN stats
                ELSE ai_update_stats(stats, verdict'.result)
    /\ UNCHANGED <<ledgerVars, taskVars, cache, clock, total_verifications, batch>>

EngineNext ==
    \/ AnalyzeContent
    \/ AnalyzeMisinformation
    \/ CalculateFinalScores
    \/ AnalyzeUrl
    \/ AnalyzeImage

SpecEngine == InitEngine /\ [][EngineNext]_vars

----------------------------------------------------------------------------
(* ai_engine.py: calls of analyze_text on one engine, over time *)

MaxClock == 3
MaxAnalyses == 3

CacheTexts ==
    {[phrases |-> {}, long |-> FALSE],
     [phrases |-> {"shocking", "voter fraud conspiracy"}, long |-> TRUE],
     UnencodableInput}

InitCache ==
    /\ LedgerInit
    /\ TasksOff
    /\ total_verifications = 0
    /\ AiOff
    /\ batch = NoBatch
    /\ \E c \in BOOLEAN :
          verdict = [path |-> "analyze_text_call", stage |-> "idle",
                     text_classifier |-> c]

\* ai_engine.py, analyze_text: no awaited call of it suspends, so a call runs
\* from its first line to its return in one step.
AnalyzeText ==
    /\ verdict.path = "analyze_text_call"
    /\ \E text \in CacheTexts :
          LET out == ai_analyze_text_call(cache, stats, text,
                                          verdict.text_classifier, clock)
          IN  /\ out.stats.total_analyses <= MaxAnalyses
              /\ verdict' =
                    IF out.raised
                    THEN [path |-> "analyze_text_call", stage |-> "raised",
                          text_classifier |-> verdict.text_classifier,
                          text |-> text, at |-> clock]
                    ELSE [path |-> "analyze_text_call", stage |-> "returned",
                          text_classifier |-> verdict.text_classifier,
                          text |-> text, at |-> clock, result |-> out.result]
              /\ cache' = out.cache
              /\ stats' = out.stats
    /\ UNCHANGED <<ledgerVars, taskVars, clock, total_verifications, batch>>

\* Half an hour passes.
Tick ==
    /\ verdict.path = "analyze_text_call"
    /\ clock < MaxClock
    /\ clock' = clock + 1
    /\ UNCHANGED <<ledgerVars, taskVars, cache, stats, verdict,
                   total_verifications, batch>>

\* ai_engine.py, cleanup: self.cache.clear()
Cleanup ==
    /\ verdict.path = "analyze_text_call"
    /\ cache # EmptyDict
    /\ cache' = EmptyDict
    /\ UNCHANGED <<ledgerVars, taskVars, stats, clock, verdict,
                   total_verifications, batch>>

CacheNext == AnalyzeText \/ Tick \/ Cleanup

SpecCache == InitCache /\ [][CacheNext]_vars

----------------------------------------------------------------------------
(* One analysis of script_2.py, call by awaited call *)

\* How a service behaves for the length of one request.  The fact-check call
\* is the last of its try block, so its failure and its answer lead to the
\* same next call.
Behaviours == {"answers", "raises", "silent"}
Services ==
    [gemini : Behaviours, operation : Behaviours,
     fact_check : {"answers", "raises"}]

\* An awaited call: the service awaited and the try block it is awaited in
\* (the analyser's, the nested _analyze_text_content's on transcribed speech,
\* or _generate_educational_content's).
Call(service, scope) == [service |-> service, scope |-> scope]

\* The awaits of analyze_content in program order, for a text, a base64
\* image, and a video or audio given by URL whose speech is transcribed.
calls_of(content_type) ==
    (CASE analyser_of(content_type) = "text" ->
            <<Call("gemini", "analyser"), Call("fact_check", "analyser")>>
       [] analyser_of(content_type) = "image" ->
            <<Call("gemini", "analyser")>>
       [] analyser_of(content_type) = "video" ->
            <<Call("operation", "analyser"), Call("gemini", "analyser"),
              Call("gemini", "nested"), Call("fact_check", "nested")>>
       [] analyser_of(content_type) = "audio" ->
            <<Call("operation", "analyser"), Call("gemini", "nested"),
              Call("fact_check", "nested"), Call("gemini", "analyser")>>)
    \o <<Call("gemini", "education")>>

RECURSIVE leave_nested(_)
leave_nested(calls) ==
    IF calls # <<>> /\ Head(calls).scope = "nested"
    THEN leave_nested(Tail(calls))
    ELSE calls

\* Where control goes when the awaited call raises: to the handler of the
\* try block it is in, which skips the rest of that block.
after_raise(calls) ==
    CASE Head(calls).scope = "analyser" ->
            SelectSeq(Tail(calls), LAMBDA c : c.scope = "education")
      [] Head(calls).scope = "nested" -> leave_nested(Tail(calls))
      [] Head(calls).scope = "education" -> Tail(calls)

\* Only operation.result() is awaited under asyncio.wait_for.
has_timeout(call) == call.service = "operation"

InAnalyser(calls) == \E i \in 1..Len(calls) : calls[i].scope # "education"

\* analyze_content counts the verification between the analyser and the
\* educational content.
counted(before, after) ==
    IF InAnalyser(before) /\ ~InAnalyser(after)
    THEN total_verifications + 1
    ELSE total_verifications

InitDeadline ==
    /\ LedgerInit
    /\ TasksOff
    /\ total_verifications = 0
    /\ AiOff
    /\ batch = NoBatch
    /\ \E ct \in ContentTypes, sv \in Services :
          verdict = [path |-> "request", stage |-> "awaiting",
                     content_type |-> ct, services |-> sv,
                     calls |-> calls_of(ct), degraded |-> FALSE]

\* The awaited call answers.
CallAnswers ==
    /\ verdict.path = "request"
    /\ verdict.stage = "awaiting"
    /\ verdict.calls # <<>>
    /\ verdict.services[Head(verdict.calls).service] = "answers"
    /\ verdict' = [verdict EXCEPT !.calls = Tail(@)]
    /\ total_verifications' = counted(verdict.calls, Tail(verdict.calls))
    /\ UNCHANGED <<ledgerVars, taskVars, aiVars, batch>>

\* The awaited call raises, and the enclosing handler degrades the verdict.
CallRaises ==
    /\ verdict.path = "request"
    /\ verdict.stage = "awaiting"
    /\ verdict.calls # <<>>
    /\ verdict.services[Head(verdict.calls).service] = "raises"
    /\ verdict' = [verdict EXCEPT !.calls = after_raise(@), !.degraded = TRUE]
    /\ total_verifications' = counted(verdict.calls, after_raise(verdict.calls))
    /\ UNCHANGED <<ledgerVars, taskVars, aiVars, batch>>

\* asyncio.wait_for gives up on a call that does not answer.
WaitForTimeout ==
    /\ verdict.path = "request"
    /\ verdict.stage = "awaiting"
    /\ verdict.calls # <<>>
    /\ has_timeout(Head(verdict.calls))
    /\ verdict.services[Head(verdict.calls).service] = "silent"
    /\ verdict' = [verdict EXCEPT !.calls = after_raise(@), !.degraded = TRUE]
    /\ total_verifications' = counted(verdict.calls, after_raise(verdict.calls))
    /\ UNCHANGED <<ledgerVars, taskVars, aiVars, batch>>

\* analyze_content returns its AnalysisResult.
ReturnVerdict ==
    /\ verdict.path = "request"
    /\ verdict.stage = "awaiting"
    /\ verdict.calls = <<>>
    /\ verdict' = [verdict EXCEPT !.stage = "returned"]
    /\ UNCHANGED <<ledgerVars, taskVars, aiVars, total_verifications, batch>>

DeadlineNext == CallAnswers \/ CallRaises \/ WaitForTimeout \/ ReturnVerdict

\* The event loop resumes a coroutine whose awaited call has completed.
SpecDeadline == InitDeadline /\ [][DeadlineNext]_vars /\ WF_vars(DeadlineNext)

----------------------------------------------------------------------------
(* A batch request: batch_verify_content of script_1.py *)

MaxBatch == 3
MAX_BATCH_SIZE == 10

\* The items of a batch: a text analysed in full, a text whose model call
\* fails (analysed to the fallback verdict), and a content that cannot be
\* encoded (its analysis raises).
ItemClean ==
    [content |-> "c1", content_type |-> "text",
     input |-> [text |-> [phrases |-> {}, long |-> FALSE], metadata |-> EmptyDict,
                gemini |-> [ok |-> TRUE,
                            result |-> [authenticity_score |-> 5000,
                                        misinformation_likelihood |-> 5000]],
                fact_check |-> [ok |-> TRUE, results |-> <<>>]]]
ItemDegraded ==
    [content |-> "c2", content_type |-> "text",
     input |-> [text |-> [phrases |-> {}, long |-> FALSE], metadata |-> EmptyDict,
                gemini |-> GeminiFailed,
                fact_check |-> [ok |-> TRUE, results |-> <<>>]]]
ItemUnencodable ==
    [content |-> "bad", content_type |-> "text", input |-> UnencodableInput]
BatchItems == {ItemClean, ItemDegraded, ItemUnencodable}

Batches == UNION {[1..n -> BatchItems] : n \in 1..MaxBatch}

\* VerificationResponse(...) raises a validation error for a score outside
\* [0, 1] (Field(ge=0.0, le=1.0)).
response_raises(r) ==
    \/ r.authenticity_score < 0 \/ r.authenticity_score > 10000
    \/ r.misinformation_likelihood < 0 \/ r.misinformation_likelihood > 10000

\* The VerificationResponse of one item; content_id is the digest of the
\* content, modelled by the content.
verification_response(item, r, blockchain_hash) ==
    [content_id |-> item.content,
     authenticity_score |-> r.authenticity_score,
     misinformation_likelihood |-> r.misinformation_likelihood,
     risk_level |-> r.risk_level,
     blockchain_hash |-> blockchain_hash,
     user_id |-> "u1"]

HTTP500 == [status_code |-> 500]

InitBatch ==
    /\ LedgerInit
    /\ TasksOff
    /\ verdict = NoVerdict
    /\ total_verifications = 0
    /\ AiOff
    /\ \E items \in Batches, token_ok \in BOOLEAN :
          batch = [stage |-> "received", token_ok |-> token_ok, items |-> items,
                   results |-> <<>>, i |-> 0, responses |-> <<>>,
                   response |-> NoResult]

\* Lines 244-264: the token, the size limit, then every item analysed, the
\* outcomes (results or exceptions) gathered in the order of the items.
BatchGather ==
    /\ batch.stage = "received"
    /\ IF ~batch.token_ok \/ Len(batch.items) > MAX_BATCH_SIZE
       THEN /\ batch' = [batch EXCEPT !.stage = "failed", !.response = HTTP500]
            /\ UNCHANGED total_verifications
       ELSE LET results ==
                    [k \in 1..Len(batch.items) |->
                        analyze_content(batch.items[k].content_type,
                                        batch.items[k].input)]
                analysed == {k \in 1..Len(results) : ~results[k].raised}
            IN  /\ batch' = [batch EXCEPT !.stage = "gathered", !.results = results]
                /\ total_verifications' = total_verifications + Cardinality(analysed)
    /\ UNCHANGED <<ledgerVars, taskVars, aiVars, verdict>>

\* Lines 268-295, one turn of the loop: an exception is logged and skipped;
\* a result is recorded in the ledger and answered, and whatever that raises
\* ends the request (line 306).
BatchRecord ==
    /\ batch.stage = "gathered"
    /\ batch.i < Len(batch.results)
    /\ LET item == batch.items[batch.i + 1]
           r == batch.results[batch.i + 1]
       IN  IF r.raised
           THEN /\ batch' = [batch EXCEPT !.i = @ + 1]
                /\ UNCHANGED <<verification_chain, content_hashes>>
           ELSE \E now \in Times :
                  LET out == create_verification(verification_chain, content_hashes,
                                                 item.content, r, "u1", now)
                  IN  IF out.raised
                      THEN /\ batch' = [batch EXCEPT !.stage = "failed",
                                                     !.response = HTTP500]
                           /\ UNCHANGED <<verification_chain, content_hashes>>
                      ELSE /\ verification_chain' = out.chain
                           /\ content_hashes' = out.content_hashes
                           /\ batch' =
                                IF response_raises(r)
                                THEN [batch EXCEPT !.stage = "failed",
                                                   !.response = HTTP500]
                                ELSE [batch EXCEPT
                                        !.i = @ + 1,
                                        !.responses =
                                            Append(@, verification_response(
                                                          item, r, out.ret))]
    /\ UNCHANGED <<result, tampered, taskVars, aiVars, verdict, total_verifications>>

\* Lines 297-304: the answer of the batch.
BatchReturn ==
    /\ batch.stage = "gathered"
    /\ batch.i = Len(batch.results)
    /\ batch' = [batch EXCEPT
                   !.stage = "returned",
                   !.response =
                       [total_items |-> Len(batch.items),
                        processed_items |-> Len(batch.responses),
                        failed_items |-> Len(batch.items) - Len(batch.responses),
                        results |-> batch.responses]]
    /\ UNCHANGED <<ledgerVars, taskVars, aiVars, verdict, total_verifications>>

BatchNext == BatchGather \/ BatchRecord \/ BatchReturn

SpecBatch == InitBatch /\ [][BatchNext]_vars

----------------------------------------------------------------------------
(* One verification request: verify_content and the WhatsApp handler *)

\* The contents sent: texts the model scores in four ways, and a content
\* that cannot be encoded.
VerifyInputs ==
    {[text |-> [phrases |-> ps, long |-> FALSE], metadata |-> EmptyDict,
      gemini |-> g, fact_check |-> [ok |-> TRUE, results |-> <<>>]] :
        ps \in {{}, {"miracle cure"}},
        g \in {GeminiFailed,
               [ok |-> TRUE, result |-> [authenticity_score |-> 5000,
                                         misinformation_likelihood |-> 5000]],
               [ok |-> TRUE, result |-> [authenticity_score |-> 10000,
                                         misinformation_likelihood |-> 0]],
               [ok |-> TRUE, result |-> [authenticity_score |-> 15000,
                                         misinformation_likelihood |-> 12000]]}}
VerifyItems ==
    {[content |-> c, content_type |-> "text", input |-> i] :
        c \in Contents, i \in VerifyInputs}
    \cup {ItemUnencodable}

\* A WhatsApp message from which _extract_message_content gets no content.
ItemEmpty == [content |-> "", content_type |-> "text", input |-> UnencodableInput]

\* response_templates[...]["error"] and ["help"]
ErrorTemplate == [template |-> "error"]
HelpTemplate == [template |-> "help"]

\* _generate_response_message: the template chosen by the risk, then the
\* blockchain hash of the analysis result; reading an attribute the result
\* does not have raises inside the try, which answers the error template.
generate_response_message(analysis_result) ==
    IF "blockchain_hash" \notin DOMAIN analysis_result
    THEN ErrorTemplate
    ELSE [template |->
              IF \/ analysis_result.risk_level = "critical"
                 \/ analysis_result.misinformation_likelihood >= 8000
              THEN "result_misinformation"
              ELSE IF \/ analysis_result.risk_level \in {"high", "medium"}
                      \/ analysis_result.misinformation_likelihood >= 4000
              THEN "result_suspicious"
              ELSE "result_authentic",
          authenticity_score |-> analysis_result.authenticity_score,
          misinformation_likelihood |-> analysis_result.misinformation_likelihood,
          blockchain_hash |-> analysis_result.blockchain_hash]

InitVerify ==
    /\ LedgerInit
    /\ TasksOff
    /\ total_verifications = 0
    /\ AiOff
    /\ batch = NoBatch
    /\ \/ \E item \in VerifyItems, token_ok \in BOOLEAN :
             verdict = [path |-> "verify_content", stage |-> "received",
                        token_ok |-> token_ok, item |-> item,
                        analysis |-> NoResult, response |-> NoResult]
       \/ \E item \in VerifyItems \cup {ItemEmpty} :
             verdict = [path |-> "handle_incoming_message", stage |-> "received",
                        token_ok |-> TRUE, item |-> item,
                        analysis |-> NoResult, response |-> NoResult]

\* verify_content, lines 176-189: the token, then the analysis; whatever
\* raises is answered with HTTP 500 (lines 231-233).
VerifyAnalyse ==
    /\ verdict.path = "verify_content"
    /\ verdict.stage = "received"
    /\ LET out == analyze_content(verdict.item.content_type, verdict.item.input)
       IN  IF ~verdict.token_ok \/ out.raised
           THEN /\ verdict' = [verdict EXCEPT !.stage = "failed",
                                              !.response = HTTP500]
                /\ UNCHANGED total_verifications
           ELSE /\ verdict' = [verdict EXCEPT !.stage = "aggregated",
                                              !.analysis = out]
                /\ total_verifications' = total_verifications + 1
    /\ UNCHANGED <<ledgerVars, taskVars, aiVars, batch>>

\* verify_content, lines 192-229: the ledger block, then the response; no
\* await lies between the two.
VerifyRecord ==
    /\ verdict.path = "verify_content"
    /\ verdict.stage = "aggregated"
    /\ \E now \in Times :
         LET out == create_verification(verification_chain, content_hashes,
                                        verdict.item.content, verdict.analysis,
                                        "u1", now)
         IN  IF out.raised
             THEN /\ verdict' = [verdict EXCEPT !.stage = "failed",
                                                !.response = HTTP500]
                  /\ UNCHANGED <<verification_chain, content_hashes>>
             ELSE /\ verification_chain' = out.chain
                  /\ content_hashes' = out.content_hashes
                  /\ verdict' =
                       IF response_raises(verdict.analysis)
                       THEN [verdict EXCEPT !.stage = "failed",
                                            !.response = HTTP500]
                       ELSE [verdict EXCEPT
                               !.stage = "returned",
                               !.response = verification_response(
                                   verdict.item, verdict.analysis, out.ret)]
    /\ UNCHANGED <<result, tampered, taskVars, aiVars, total_verifications, batch>>

\* _handle_incoming_message, lines 166-192: the content of the message (the
\* help text is sent when there is none), then the analysis; whatever raises
\* is answered with the error template (lines 214-223).
MessageAnalyse ==
    /\ verdict.path = "handle_incoming_message"
    /\ verdict.stage = "received"
    /\ IF verdict.item = ItemEmpty
       THEN /\ verdict' = [verdict EXCEPT !.stage = "answered",
                                          !.response = HelpTemplate]
            /\ UNCHANGED total_verifications
       ELSE LET out == analyze_content(verdict.item.content_type,
                                       verdict.item.input)
            IN  IF out.raised
                THEN /\ verdict' = [verdict EXCEPT !.stage = "failed",
                                                   !.response = ErrorTemplate]
                     /\ UNCHANGED total_verifications
                ELSE /\ verdict' = [verdict EXCEPT !.stage = "aggregated",
                                                   !.analysis = out]
                     /\ total_verifications' = total_verifications + 1
    /\ UNCHANGED <<ledgerVars, taskVars, aiVars, batch>>

\* _handle_incoming_message, lines 194-212: the response message is written
\* and sent; the ledger is not called.
MessageRespond ==
    /\ verdict.path = "handle_incoming_message"
    /\ verdict.stage = "aggregated"
    /\ verdict' = [verdict EXCEPT
                     !.stage = "answered",
                     !.response = generate_response_message(verdict.analysis)]
    /\ UNCHANGED <<ledgerVars, taskVars, aiVars, total_verifications, batch>>

VerifyNext == VerifyAnalyse \/ VerifyRecord \/ MessageAnalyse \/ MessageRespond

SpecVerify == InitVerify /\ [][VerifyNext]_vars

----------------------------------------------------------------------------
(* Properties of the ledger *)

IsPrefix(a, b) == Len(a) <= Len(b) /\ SubSeq(b, 1, Len(a)) = a

ReadOps ==
    {"verify_blockchain_integrity", "get_content_provenance",
     "get_verification_stats"}

\* The wall-clock reading a printed timestamp stands for.
ParseTime(stamp) == <<stamp[1] - 48, IF Len(stamp) = 2 THEN 0 ELSE stamp[3] - 48>>

\* C1: on a ledger built only by sequential create_verification calls, with
\* no tampering, the whole-chain integrity check returns true, whatever the
\* number of blocks (none and one included).
C1_SequentialChainVerifies ==
    verify_chain_integrity(verification_chain) =
        [valid |-> TRUE, broken_at |-> NoIndex]

C1_Witness ==
    /\ Len(verification_chain) >= 3
    /\ result.op = "get_verification_stats"
    /\ result.ret.chain_integrity

\* C3 as stated: for every block appended and not modified since,
\* verify_blockchain_integrity called with its hash reports is_valid = true.
C3_AppendedBlockVerifies ==
    \A i \in 1..Len(verification_chain) :
        verify_blockchain_integrity(verification_chain,
            verification_chain[i].blockchain_hash).is_valid

\* C5: the ledger is append-only: every step leaves the chain it started
\* from as a prefix of the chain it ends with, and a step of one of the three
\* read operations leaves the chain and the content index unchanged.
C5_AppendOnly ==
    [][ /\ IsPrefix(verification_chain, verification_chain')
        /\ (result'.op \in ReadOps =>
               /\ verification_chain' = verification_chain
               /\ content_hashes' = content_hashes) ]_vars

C5_Witness ==
    /\ Len(verification_chain) >= 2
    /\ result.op \in ReadOps

\* C6: verify_blockchain_integrity called with a hash of no block of the
\* chain returns (it does not raise) is_valid = false with the not-found
\* error, and leaves the ledger as it was; the empty ledger included.
C6_UnknownHashNotFound ==
    [][ (/\ result'.op = "verify_blockchain_integrity"
         /\ \A i \in 1..Len(verification_chain) :
                verification_chain[i].blockchain_hash # result'.arg)
        => /\ result'.ret = [is_valid |-> FALSE,
                             error |-> "Verification block not found"]
           /\ verification_chain' = verification_chain
           /\ content_hashes' = content_hashes ]_vars

C6_Witness ==
    /\ result.op = "verify_blockchain_integrity"
    /\ Len(verification_chain) >= 1
    /\ \A i \in 1..Len(verification_chain) :
           verification_chain[i].blockchain_hash # result.arg
    /\ "error" \in DOMAIN result.ret

C6_WitnessEmpty ==
    /\ result.op = "verify_blockchain_integrity"
    /\ verification_chain = <<>>

\* C7: get_content_provenance returns exactly one entry per block whose
\* content_hash is the hash of the content asked about (none for content
\* never verified), whoever the user and whatever lies in between, and the
\* entries are in ascending order of the time of verification.
C7_Provenance ==
    result.op = "get_content_provenance" =>
        LET ret == result.ret
            mine == {i \in 1..Len(verification_chain) :
                        verification_chain[i].content_hash =
                            create_content_hash(result.arg)}
        IN  /\ Len(ret) = Cardinality(mine)
            /\ \A i \in mine :
                   \E k \in 1..Len(ret) :
                       ret[k] = provenance_entry(verification_chain[i])
            /\ \A j, k \in 1..Len(ret) :
                   j < k => TimeLeq(ParseTime(ret[j].verification_timestamp),
                                    ParseTime(ret[k].verification_timestamp))

\* content verified three times, by two users, the timestamps not in the
\* order of the chain
C7_Witness ==
    /\ result.op = "get_content_provenance"
    /\ Len(result.ret) = 3
    /\ \E j, k \in 1..3 : result.ret[j].user_id # result.ret[k].user_id
    /\ \E i \in 1..2 :
           ~TimeLeq(ParseTime(verification_chain[i].verification_timestamp),
                    ParseTime(verification_chain[i + 1].verification_timestamp))

\* content verified twice with a block of another content in between
C7_WitnessBetween ==
    /\ result.op = "get_content_provenance"
    /\ Len(result.ret) = 2
    /\ Len(verification_chain) = 3
    /\ verification_chain[2].content_hash # create_content_hash(result.arg)

C7_WitnessNever ==
    /\ result.op = "get_content_provenance"
    /\ result.ret = <<>>
    /\ verification_chain # <<>>

\* C2 as stated: after one field of one block was changed, the whole-chain
\* check returns false and names the index of the changed block.
C2_TamperDetected ==
    tampered # NoTamper =>
        verify_chain_integrity(verification_chain) =
            [valid |-> FALSE, broken_at |-> tampered.index]

\* The string a block's hash was computed from, past the block's own fields:
\* the previous hash it was chained to (empty for a block hashed alone).
PreviousUsed(block) ==
    LET own == Len(json_dumps(PopHash(block)))
        h == block.blockchain_hash
    IN  IF Len(h) = own THEN <<>> ELSE SubSeq(h, own + 2, Len(h))

AllReturned == \A p \in Procs : pc[p] = "returned"

\* C4: when the concurrent requests are all served, the ledger holds one more
\* block per request than it started with, every block past the first was
\* hashed against the block right before it in the final order, and no two
\* blocks were hashed against the same predecessor.
C4_NoFork ==
    AllReturned =>
        /\ Len(verification_chain) = Len(initial_chain) + NumTasks
        /\ IsPrefix(initial_chain, verification_chain)
        /\ PreviousUsed(verification_chain[1]) = <<>>
        /\ \A i \in 2..Len(verification_chain) :
               PreviousUsed(verification_chain[i]) =
                   verification_chain[i - 1].blockchain_hash
        /\ \A i, j \in 1..Len(verification_chain) :
               i # j => PreviousUsed(verification_chain[i]) #
                           PreviousUsed(verification_chain[j])

\* all served, and at some moment two requests were in flight together
C4_Witness ==
    /\ AllReturned
    /\ Len(initial_chain) = 1

C4_WitnessOverlap ==
    /\ Cardinality({p \in Procs : pc[p] = "analysing"}) >= 2
    /\ \E p \in Procs : pc[p] = "returned"

RECURSIVE HistogramTotal(_)
HistogramTotal(h) ==
    IF DOMAIN h = {} THEN 0
    ELSE LET l == CHOOSE x \in DOMAIN h : TRUE
         IN  h[l] + HistogramTotal([x \in DOMAIN h \ {l} |-> h[x]])

StatsKeys ==
    {"total_verifications", "unique_content_pieces",
     "average_authenticity_score", "risk_distribution", "chain_integrity"}

\* C19: in every state of the ledger, the empty one included,
\* get_verification_stats returns all five statistics: the total, equal to
\* the number of blocks; the number of distinct content hashes; the average
\* authenticity; a risk histogram whose counts sum to the total; and the
\* chain-validity flag, equal to what the whole-chain integrity check gives.
C19_StatsComplete ==
    result.op = "get_verification_stats" =>
        /\ DOMAIN result.ret = StatsKeys
        /\ result.ret.total_verifications = Len(verification_chain)
        /\ result.ret.unique_content_pieces =
              Cardinality({verification_chain[i].content_hash :
                              i \in 1..Len(verification_chain)})
        /\ HistogramTotal(result.ret.risk_distribution) = Len(verification_chain)
        /\ result.ret.chain_integrity =
              verify_chain_integrity(verification_chain).valid

\* C23: the whole-chain check holds every block past the first against the
\* stored hash of the block that now stands before it, so a chain in which
\* two blocks have changed places, and nothing else was touched, fails the
\* check; a chain nobody reordered passes it.
C23_ExchangeDetected ==
    /\ tampered.field = "exchanged" =>
          ~verify_chain_integrity(verification_chain).valid
    /\ tampered = NoTamper =>
          verify_chain_integrity(verification_chain).valid

C23_Witness ==
    /\ tampered.field = "exchanged"
    /\ tampered.index = 0
    /\ tampered.with = 2
    /\ result.op = "get_verification_stats"
    /\ result.ret.chain_integrity = FALSE

C23_WitnessAdjacent ==
    /\ tampered.field = "exchanged"
    /\ Len(verification_chain) = 2

\* The place of the last block of the chain that has the content hash h.
LastWith(chain, h) ==
    CHOOSE i \in 1..Len(chain) :
        /\ chain[i].content_hash = h
        /\ \A j \in 1..Len(chain) : chain[j].content_hash = h => j <= i

\* C24: content_hashes is a view derived from the chain.  After any sequence
\* of appends its keys are the content hashes that occur in the chain, and
\* each key maps to the block appended last with that content hash.
C24_IndexDerived ==
    /\ DOMAIN content_hashes =
          {verification_chain[i].content_hash : i \in 1..Len(verification_chain)}
    /\ \A h \in DOMAIN content_hashes :
          content_hashes[h] = verification_chain[LastWith(verification_chain, h)]

C24_Witness ==
    /\ Len(verification_chain) = 3
    /\ verification_chain[1].content_hash = verification_chain[3].content_hash
    /\ verification_chain[1] # verification_chain[3]
    /\ verification_chain[2].content_hash # verification_chain[1].content_hash
    /\ content_hashes[verification_chain[1].content_hash] = verification_chain[3]
    /\ result.op = "create_verification"

\* C28: create_verification is all or nothing.  When it returns, the chain
\* has grown by exactly one block, placed last, content_hashes holds that
\* block under its content hash (and is otherwise as before), and the hash
\* returned is the stored hash of that last block; when it raises, the chain
\* and content_hashes are exactly as they were before the call.
C28_AllOrNothing ==
    [][ result'.op = "create_verification" =>
          IF result'.raised
          THEN /\ verification_chain' = verification_chain
               /\ content_hashes' = content_hashes
          ELSE LET last == verification_chain'[Len(verification_chain')]
               IN  /\ Len(verification_chain') = Len(verification_chain) + 1
                   /\ SubSeq(verification_chain', 1, Len(verification_chain))
                         = verification_chain
                   /\ last.blockchain_hash = result'.ret
                   /\ DOMAIN content_hashes' =
                         DOMAIN content_hashes \cup {last.content_hash}
                   /\ \A h \in DOMAIN content_hashes' :
                         content_hashes'[h] =
                             IF h = last.content_hash THEN last
                             ELSE content_hashes[h] ]_vars

C28_Witness ==
    /\ result.op = "create_verification"
    /\ result.raised
    /\ IsDict(result.request.analysis_result)
    /\ Len(verification_chain) = 2
    /\ Cardinality(DOMAIN content_hashes) = 2

C28_WitnessAppended ==
    /\ result.op = "create_verification"
    /\ ~result.raised
    /\ Len(verification_chain) = 2
    /\ verification_chain[2].blockchain_hash = result.ret
    /\ verification_chain[1].content_hash = verification_chain[2].content_hash

----------------------------------------------------------------------------
(* Properties of the analysis engine *)

Scored ==
    /\ verdict.path = "analyze_content"
    /\ verdict.stage = "returned"
    /\ ~verdict.result.raised

AiScored == verdict.path = "analyze_text" /\ verdict.stage = "returned"

InUnit(x) == 0 <= x /\ x <= 10000

\* C8: every verdict has its authenticity score and its misinformation
\* likelihood within [0, 1], on the text, image, video and audio paths,
\* whatever numbers the analysers were given.
C8_ScoresInRange ==
    /\ Scored => /\ InUnit(verdict.result.authenticity_score)
                 /\ InUnit(verdict.result.misinformation_likelihood)
    /\ AiScored => InUnit(verdict.result.confidence_score)

\* The one table of the design: below 0.3 low, from 0.3 up to but not
\* including 0.7 medium, 0.7 and above high.
RiskTable(score) ==
    IF score < 3000 THEN "low" ELSE IF score < 7000 THEN "medium" ELSE "high"

\* C9: at every place that labels a misinformation score, the label is the
\* one of the single table low < 0.3 <= medium < 0.7 <= high.
C9_OneRiskTable ==
    /\ Scored =>
         verdict.result.risk_level = RiskTable(verdict.result.misinformation_likelihood)
    /\ AiScored =>
         verdict.result.risk_level = RiskTable(verdict.result.confidence_score)

\* The categories of the pattern table with a phrase in the text.
MatchedCategories(text) ==
    {misinformation_patterns[i][1] : i \in
        {j \in 1..Len(misinformation_patterns) :
            InText(misinformation_patterns[j][2], text)}}

TextScored ==
    /\ Scored
    /\ verdict.content_type = "text"
    /\ verdict.result.detection_details.analysis_method = "multimodal_text_analysis"
    /\ InUnit(verdict.input.gemini.result.misinformation_likelihood)

\* C10: the pattern penalty is counted once for each matched category: the
\* score rises by the penalty times the number of matched categories (capped
\* at 1) from the score the model gave within [0, 1], so three phrases of one
\* category weigh like one, and two categories weigh twice one.
C10_PenaltyPerCategory ==
    /\ TextScored =>
         verdict.result.misinformation_likelihood =
             Min(10000, verdict.input.gemini.result.misinformation_likelihood
                        + 3000 * Cardinality(MatchedCategories(verdict.input.text)))
    /\ AiScored =>
         verdict.result.confidence_score =
             Min(10000, (IF verdict.text_classifier THEN 1000 ELSE 0)
                        + 2000 * Len(ai_check_misinformation_patterns(verdict.text)))

\* C11: the flag of a verdict is set exactly when its final misinformation
\* score is at least 0.8; a verdict with a score in [0.7, 0.8) is high risk
\* and not flagged.  ai_engine.py carries the flag as is_misinformation, the
\* multimodal engine as the level "critical".
C11_FlagAtCritical ==
    /\ AiScored =>
         /\ verdict.result.is_misinformation <=> verdict.result.confidence_score >= 8000
         /\ (verdict.result.confidence_score >= 7000
                 /\ verdict.result.confidence_score < 8000)
              => (verdict.result.risk_level = "high"
                     /\ ~verdict.result.is_misinformation)
    /\ Scored =>
         /\ verdict.result.risk_level = "critical"
              <=> verdict.result.misinformation_likelihood >= 8000
         /\ (verdict.result.misinformation_likelihood >= 7000
                 /\ verdict.result.misinformation_likelihood < 8000)
              => verdict.result.risk_level = "high"

\* The request reached an analyser (its content id was made and its content
\* type routed).
Routed ==
    /\ verdict.path = "analyze_content"
    /\ verdict.stage = "returned"
    /\ verdict.content_type \in ContentTypes
    /\ verdict.input # UnencodableInput

\* C14: content that cannot be fetched or decoded at all (an image, video or
\* audio that does not download, decode or upload) ends the request in an
\* error, never in a returned verdict with neutral or low-confidence scores.
C14_UndecodableIsError ==
    (Routed /\ analyser_of(verdict.content_type) # "text" /\ ~verdict.input.decoded)
        => verdict.result.raised

\* A text request whose model call answered with both scores.
ModelAnswered ==
    /\ Routed
    /\ verdict.content_type = "text"
    /\ verdict.input.gemini.ok
    /\ "authenticity_score" \in DOMAIN verdict.input.gemini.result
    /\ "misinformation_likelihood" \in DOMAIN verdict.input.gemini.result

IsNeutral(analysis) ==
    /\ analysis.authenticity_score = 5000
    /\ analysis.misinformation_likelihood = 5000
    /\ analysis.confidence_scores.overall_confidence = 3000
    /\ "error" \in DOMAIN analysis.detection_details

\* A video or audio request whose media was read and whose own model call
\* answered, while the model call on its transcribed speech failed.
SpeechModelFailed ==
    /\ Routed
    /\ analyser_of(verdict.content_type) \in {"video", "audio"}
    /\ verdict.input.decoded
    /\ verdict.input.gemini.ok
    /\ verdict.input.speech.spoken \/ analyser_of(verdict.content_type) = "audio"
    /\ ~verdict.input.speech.gemini.ok

\* C16: when the external model call fails (raises, a timeout error
\* included), the analysis does not abort: its verdict is the neutral one,
\* authenticity 0.5 and misinformation 0.5 with low confidence, and the
\* failure is recorded in detection_details.  When the failing call is the
\* one on the transcribed speech of a video or audio, that neutral verdict is
\* what the blend is computed from.
C16_ModelFailureGivesNeutralVerdict ==
    /\ (Routed /\ ~verdict.input.gemini.ok) =>
          (~verdict.result.raised /\ IsNeutral(verdict.result))
    /\ (SpeechModelFailed /\ analyser_of(verdict.content_type) = "video") =>
          /\ ~verdict.result.raised
          /\ IsNeutral(verdict.result.detection_details.speech_analysis)
          /\ verdict.result.authenticity_score =
                (Get(verdict.input.gemini.result, "authenticity_score", 7000) * 7000
                     + 5000 * 3000) \div 10000
    /\ (SpeechModelFailed /\ analyser_of(verdict.content_type) = "audio") =>
          /\ ~verdict.result.raised
          /\ IsNeutral(verdict.result.detection_details.text_analysis)
          /\ verdict.result.authenticity_score =
                (5000 * 6000
                     + Get(verdict.input.gemini.result, "authenticity_score", 7000)
                         * 4000) \div 10000

C16_Witness ==
    /\ Routed
    /\ verdict.content_type = "video"
    /\ verdict.input.decoded
    /\ ~verdict.input.gemini.ok
    /\ IsNeutral(verdict.result)
    /\ verdict.result.risk_level = "medium"

C16_WitnessSpeech ==
    /\ SpeechModelFailed
    /\ verdict.content_type = "audio"
    /\ verdict.result.authenticity_score = 7000

\* The fields a verdict of each entry point must have.
RequiredFields ==
    [analyze_content |->
        {"authenticity_score", "misinformation_likelihood", "risk_level",
         "detection_details", "fact_check_sources", "confidence_scores"},
     analyze_text |->
        {"is_misinformation", "confidence_score", "risk_level",
         "detected_patterns", "fact_checks"},
     analyze_url |->
        {"is_misinformation", "confidence_score", "risk_level",
         "content_analysis", "source_credibility", "fact_checks"},
     analyze_image |->
        {"is_manipulated", "confidence_score", "manipulation_types",
         "authenticity_score"}]

\* What an entry point hands back: an exception raised to the caller, or the
\* object returned.
IsExplicitError(path, response) ==
    IF path = "analyze_content" THEN response.raised
    ELSE DOMAIN response = {"error"}

IsCompleteVerdict(path, response) ==
    /\ RequiredFields[path] \subseteq DOMAIN response
    /\ "error" \notin DOMAIN response
    /\ path = "analyze_content" => ~response.raised

\* C17: every response to an analysis request is either a complete verdict,
\* with every required field present, or an explicit error; none is a
\* verdict with a required field missing, and none is a verdict that also
\* carries an error.
C17_VerdictOrError ==
    verdict.stage = "returned" =>
        \/ IsExplicitError(verdict.path, verdict.result)
        \/ IsCompleteVerdict(verdict.path, verdict.result)

C17_Witness ==
    /\ verdict.stage = "returned"
    /\ verdict.path = "analyze_image"
    /\ ~verdict.openable
    /\ IsExplicitError(verdict.path, verdict.result)

C17_WitnessUrl ==
    /\ verdict.stage = "returned"
    /\ verdict.path = "analyze_url"
    /\ verdict.page = NoPage
    /\ IsCompleteVerdict(verdict.path, verdict.result)
    /\ verdict.result.confidence_score = 1500

\* C18: every analysis request eventually returns, also when an external
\* service never responds: a deadline bounds the request, and no call is
\* waited for indefinitely.
C18_EveryRequestReturns ==
    <>(verdict.stage = "returned")

\* C20: a text on which the pattern matcher flags exactly two categories,
\* sensational_language and lack_of_sources in ai_engine.py and any two of its
\* own in the multimodal engine, scored from the neutral model base
\* (0.5, 0.5), gets misinformation 0.9 and authenticity 0.1, a risk level of
\* high or critical, and is flagged.
C20_TwoCategoriesScenario ==
    /\ (/\ AiScored
        /\ verdict.result.detected_patterns =
              <<"sensational_language", "lack_of_sources">>) =>
          /\ verdict.result.confidence_score = 9000
          /\ verdict.result.risk_level \in {"high", "critical"}
          /\ verdict.result.is_misinformation
    /\ (/\ TextScored
        /\ Get(verdict.input.gemini.result, "authenticity_score", NoneNum) = 5000
        /\ verdict.input.gemini.result.misinformation_likelihood = 5000
        /\ Cardinality(MatchedCategories(verdict.input.text)) = 2) =>
          /\ verdict.result.misinformation_likelihood = 9000
          /\ verdict.result.authenticity_score = 1000
          /\ verdict.result.risk_level \in {"high", "critical"}

\* A returned text verdict that is no fallback, on a text without pattern
\* match whose source URL is one of the government domains.
GovernmentSourced ==
    /\ Scored
    /\ verdict.content_type = "text"
    /\ verdict.result.detection_details.analysis_method = "multimodal_text_analysis"
    /\ check_misinformation_patterns(verdict.input.text) = <<>>
    /\ has_source_url(verdict.input.metadata)
    /\ verdict.input.metadata.source_url \in trusted_sources[2][2]

TextAnalysed ==
    /\ Scored
    /\ verdict.content_type = "text"
    /\ verdict.result.detection_details.analysis_method = "multimodal_text_analysis"

\* The scores of a text before its source is looked at: the model's, after
\* the pattern penalty.
ContentAuthenticity ==
    IF check_misinformation_patterns(verdict.input.text) # <<>>
    THEN Max(0, verdict.input.gemini.result.authenticity_score - 3000)
    ELSE verdict.input.gemini.result.authenticity_score

ContentLikelihood ==
    IF check_misinformation_patterns(verdict.input.text) # <<>>
    THEN Min(10000, verdict.input.gemini.result.misinformation_likelihood + 3000)
    ELSE verdict.input.gemini.result.misinformation_likelihood

\* C25: with a source URL the authenticity becomes the average of the
\* content-derived authenticity and the source-credibility score, and the
\* misinformation likelihood stays as it was; without a source URL both
\* scores stay as they were and no source-credibility value is reported.
C25_SourceReconciliation ==
    /\ (TextAnalysed /\ has_source_url(verdict.input.metadata)) =>
          /\ verdict.result.authenticity_score =
                (ContentAuthenticity
                   + evaluate_source_credibility(verdict.input.metadata.source_url))
                \div 2
          /\ verdict.result.misinformation_likelihood = ContentLikelihood
          /\ verdict.result.detection_details.source_credibility =
                evaluate_source_credibility(verdict.input.metadata.source_url)
    /\ (TextAnalysed /\ ~has_source_url(verdict.input.metadata)) =>
          /\ verdict.result.authenticity_score = ContentAuthenticity
          /\ verdict.result.misinformation_likelihood = ContentLikelihood
          /\ "source_credibility" \notin DOMAIN verdict.result.detection_details

\* The tier of a domain by the list it is on (the domains scored here are
\* list entries themselves or on no list).
TierOf(domain) ==
    IF domain \in trusted_sources[2][2] THEN 9500
    ELSE IF domain \in trusted_sources[3][2] THEN 9000
    ELSE IF domain \in trusted_sources[1][2] THEN 8000
    ELSE 5000

\* C26: wherever a source is scored, a domain on the government list gets
\* 0.95, one on the fact-check list 0.9, one on the news list 0.8, and a
\* domain on none of the lists 0.5: in the text analysis of script_2.py and
\* in analyze_url of ai_engine.py, whose unlisted domains get 0.5 as well.
C26_TieredSourceScore ==
    /\ (TextAnalysed /\ has_source_url(verdict.input.metadata)) =>
          verdict.result.detection_details.source_credibility =
              TierOf(verdict.input.metadata.source_url)
    /\ (/\ verdict.path = "analyze_url"
        /\ verdict.stage = "returned"
        /\ "credibility_score" \in
              DOMAIN Get(verdict.result, "source_credibility", EmptyDict)) =>
          IF verdict.result.source_credibility.is_credible_source
          THEN verdict.result.source_credibility.credibility_score
                  \in {9500, 9000, 8000}
          ELSE verdict.result.source_credibility.credibility_score = 5000

\* A returned video or audio verdict that is no fallback.
MediaAnalysed ==
    /\ Scored
    /\ analyser_of(verdict.content_type) \in {"video", "audio"}
    /\ verdict.result.detection_details.analysis_method # "fallback"

\* The authenticity of the text analysis of the transcribed speech.
SpeechTextAuthenticity ==
    analyze_text_content(verdict.input.speech.text, verdict.input.metadata,
                         verdict.input.speech.gemini,
                         verdict.input.speech.fact_check).authenticity_score

\* C27: the authenticity of a video is 0.7 of the visual score plus 0.3 of
\* the speech-text score (0.7 when nothing was spoken), that of an audio 0.6
\* of the transcribed-text score plus 0.4 of the voice score, and the
\* misinformation likelihood is 1 minus it: the two scores of every analysed
\* video or audio add up to 1.
C27_ModalityBlend ==
    MediaAnalysed =>
        /\ verdict.result.authenticity_score + verdict.result.misinformation_likelihood
              = 10000
        /\ analyser_of(verdict.content_type) = "video" =>
              verdict.result.authenticity_score =
                  (7000 * Get(verdict.input.gemini.result, "authenticity_score", 7000)
                   + 3000 * (IF verdict.input.speech.spoken
                             THEN SpeechTextAuthenticity ELSE 7000)) \div 10000
        /\ analyser_of(verdict.content_type) = "audio" =>
              verdict.result.authenticity_score =
                  (6000 * SpeechTextAuthenticity
                   + 4000 * Get(verdict.input.gemini.result, "authenticity_score", 7000))
                  \div 10000

C27_Witness ==
    /\ MediaAnalysed
    /\ verdict.content_type = "video"
    /\ verdict.input.speech.spoken
    /\ Get(verdict.input.gemini.result, "authenticity_score", 7000) = 10000
    /\ SpeechTextAuthenticity = 0
    /\ verdict.result.authenticity_score = 7000
    /\ verdict.result.misinformation_likelihood = 3000

C27_WitnessAudio ==
    /\ MediaAnalysed
    /\ verdict.content_type = "audio"
    /\ SpeechTextAuthenticity = 10000
    /\ Get(verdict.input.gemini.result, "authenticity_score", 7000) = 0
    /\ verdict.result.authenticity_score = 6000

\* A verdict returned by analyze_url (not its error object).
UrlScored ==
    /\ verdict.path = "analyze_url"
    /\ verdict.stage = "returned"
    /\ "risk_level" \in DOMAIN verdict.result

\* C29: in every result analyze_text and analyze_url of ai_engine.py return,
\* is_misinformation is true exactly when risk_level is high.
C29_FlagAgreesWithRisk ==
    /\ AiScored =>
          (verdict.result.is_misinformation <=> verdict.result.risk_level = "high")
    /\ UrlScored =>
          (verdict.result.is_misinformation <=> verdict.result.risk_level = "high")

----------------------------------------------------------------------------
(* Properties of a batch *)

IsErrorEntry(e) == "error" \in DOMAIN e

\* C12: the answer of a batch has exactly one outcome per item, in the order
\* of the items: the i-th entry is the verdict of the i-th item or an error
\* for it; a failed item is an error entry, never left out.
C12_OneOutcomePerItem ==
    batch.stage = "returned" =>
        LET entries == batch.response.results
        IN  /\ Len(entries) = Len(batch.items)
            /\ \A k \in 1..Len(entries) :
                  \/ IsErrorEntry(entries[k])
                  \/ /\ ~batch.results[k].raised
                     /\ entries[k].content_id = batch.items[k].content
                     /\ entries[k].misinformation_likelihood =
                            batch.results[k].misinformation_likelihood

\* C13: with the caller authenticated, the failure of one item, in its
\* analysis or in its recording, does not end the batch: the batch returns,
\* processed_items + failed_items = total_items, and every item that was
\* analysed is in the ledger and in the answer.
C13_ItemFailureDoesNotAbort ==
    (batch.stage \in {"failed", "returned"} /\ batch.token_ok) =>
        /\ batch.stage = "returned"
        /\ batch.response.processed_items + batch.response.failed_items
               = batch.response.total_items
        /\ \A k \in 1..Len(batch.items) :
              ~batch.results[k].raised =>
                 \E j \in 1..Len(batch.response.results) :
                    /\ batch.response.results[j].content_id = batch.items[k].content
                    /\ \E b \in 1..Len(verification_chain) :
                          verification_chain[b].blockchain_hash =
                              batch.response.results[j].blockchain_hash


----------------------------------------------------------------------------
(* Properties of one verification request *)

RequestPaths == {"verify_content", "handle_incoming_message"}

\* The response hands a verdict to the caller.
VerdictReturned ==
    /\ verdict.path \in RequestPaths
    /\ "authenticity_score" \in DOMAIN verdict.response

\* The request has ended.
RequestEnded ==
    /\ verdict.path \in RequestPaths
    /\ verdict.stage \in {"failed", "answered", "returned"}

----------------------------------------------------------------------------
(* Properties of the result cache *)

\* The step is a call of analyze_text: the time stands still and the
\* response or the statistics are new.
TextCalled ==
    /\ clock' = clock
    /\ verdict'.stage \in {"returned", "raised"}
    /\ verdict' # verdict \/ stats' # stats

Fresh(text) ==
    text \in DOMAIN cache /\ clock - cache[text].timestamp < cache_ttl

\* C30: a call of analyze_text for a text whose cache entry is younger than
\* cache_ttl returns the stored result and changes neither the statistics
\* nor the cache; a call whose entry is missing or at least cache_ttl old
\* returns a result analysed now, counts it and overwrites the entry with it
\* and the present time; a call that fails stores nothing.
C30_CacheHonoursTtl ==
    [][TextCalled =>
         IF verdict'.stage = "raised" THEN cache' = cache /\ stats' = stats
         ELSE IF Fresh(verdict'.text)
         THEN /\ verdict'.result = cache[verdict'.text].result
              /\ cache' = cache
              /\ stats' = stats
         ELSE /\ verdict'.result.request_id = <<clock, verdict'.text>>
              /\ verdict'.result.risk_level =
                    ai_analyze_text(verdict'.text,
                                    verdict.text_classifier).risk_level
              /\ DOMAIN cache' = DOMAIN cache \cup {verdict'.text}
              /\ cache'[verdict'.text] =
                    [result |-> verdict'.result, timestamp |-> clock]
              /\ \A k \in DOMAIN cache \ {verdict'.text} : cache'[k] = cache[k]
              /\ stats'.total_analyses = stats.total_analyses + 1]_vars

\* A call answered from the cache: the result returned was analysed earlier
\* than the call.
C30_Witness ==
    /\ verdict.path = "analyze_text_call"
    /\ verdict.stage = "returned"
    /\ verdict.text \in DOMAIN cache
    /\ verdict.result = cache[verdict.text].result
    /\ cache[verdict.text].timestamp < verdict.at
    /\ verdict.at - cache[verdict.text].timestamp < cache_ttl

\* An entry at least cache_ttl old overwritten by a second analysis of the
\* same text.
C30_WitnessStale ==
    /\ verdict.path = "analyze_text_call"
    /\ verdict.stage = "returned"
    /\ DOMAIN cache = {verdict.text}
    /\ stats.total_analyses = 2
    /\ cache[verdict.text].timestamp = verdict.at
    /\ verdict.at >= cache_ttl
    /\ verdict.result = cache[verdict.text].result

\* A call that raised on an engine whose cache holds an entry.
C30_WitnessRaised ==
    /\ verdict.path = "analyze_text_call"
    /\ verdict.stage = "raised"
    /\ cache # EmptyDict

====
